---- MODULE Spec2Model ----
(***************************************************************************)
(* The POWER8 OCC hwmon driver (drivers/hwmon/power8_occ_i2c.c) as a state *)
(* machine: the decoded response (occ_response), the typed record arrays   *)
(* it owns, the refresh cache of occ_update_device and the sysfs handlers  *)
(* that call it.                                                           *)
(*                                                                         *)
(* C indices are 0-based and kept so in every field of the model; a        *)
(* sequence s that stands for a C array a is read as s[i + 1] for a[i].    *)
(***************************************************************************)
EXTENDS Integers, Sequences, FiniteSets, TLC

(***************************************************************************)
(* Bounds of the model.                                                    *)
(***************************************************************************)
\* number of concurrent sysfs callers
NumThreads == 2
\* the clock stops ticking at this value
MaxJiffies == 2
\* addresses the allocator can hand out for record arrays
MaxAddr == 4
\* largest record count a modelled response declares
MaxRecs == 2
\* jiffies per second of the modelled kernel
HZ == 1
\* largest update interval written through sysfs, in half seconds
MaxIntervalSteps == 2

(***************************************************************************)
(* Program constants.                                                      *)
(***************************************************************************)
OCC_DATA_MAX == 4096
RESP_DATA_LENGTH == 3
RESP_HEADER_OFFSET == 5
SENSOR_STR_OFFSET == 37
SENSOR_BLOCK_NUM_OFFSET == 43
SENSOR_BLOCK_OFFSET == 45
ENOMEM == 12
EINVAL == 22
\* the "no block of this type" value of the four block ids
NoBlock == -1
NULL == 0

\* enum sensor_t
SensorT == {"freq", "temp", "power", "caps"}

\* the ASCII strings the parser compares against
StrSENSOR == <<83, 69, 78, 83, 79, 82>>
StrFREQ == <<70, 82, 69, 81>>
StrTEMP == <<84, 69, 77, 80>>
StrPOWR == <<80, 79, 87, 82>>
StrCAPS == <<67, 65, 80, 83>>
\* a tag the driver does not know ("XYZZ")
StrXYZZ == <<88, 89, 90, 90>>

Addr == 1..MaxAddr

(***************************************************************************)
(* The kernel heap, restricted to the typed record arrays.  An address is  *)
(* "none" (never handed out, or freed with no pointer left to it), "live"  *)
(* or "freed" (kfree()d while some pointer to it is still stored).  A      *)
(* memory state m is [resp, heap, ub, nalloc, enomem]: the occ_response,    *)
(* the heap, the set of undefined operations performed in the step (double *)
(* kfree, access to a freed or too short array), the number of allocations *)
(* made by the refresh in progress and whether kcalloc of a record array   *)
(* has returned NULL in it.  SLUB without debugging does not detect a      *)
(* double kfree; the run goes on and the event is recorded.                *)
(***************************************************************************)
NoArray == [st |-> "none", kind |-> "", recs |-> <<>>]
FreedArray == [st |-> "freed", kind |-> "", recs |-> <<>>]

ZeroRec(kind) ==
    CASE kind = "sensor" -> [sensor_id |-> 0, value |-> 0]
      [] kind = "power" -> [sensor_id |-> 0, update_tag |-> <<0, 0>>,
                            accumulator |-> <<0, 0>>, value |-> 0]
      [] OTHER -> [curr_powercap |-> 0, curr_powerreading |-> 0,
                   norm_powercap |-> 0, max_powercap |-> 0,
                   min_powercap |-> 0, user_powerlimit |-> 0]

\* struct sensor_data_block as kcalloc leaves it
ZeroBlock == [sensor_type |-> <<0, 0, 0, 0>>, sensor_format |-> 0,
              sensor_length |-> 0, num_of_sensors |-> 0,
              sensor |-> NULL, power |-> NULL, caps |-> NULL]

\* struct occ_poll_header, the fields the driver reads back
ZeroHeader == [error_log_addr_start |-> <<0, 0>>, error_log_length |-> 0,
               sensor_block_num |-> 0]

\* struct occ_response after devm_kzalloc: blocks = <<>> with has_blocks
\* FALSE is the NULL block list
ZeroResp == [header |-> ZeroHeader, has_blocks |-> FALSE, blocks |-> <<>>,
             temp_block_id |-> 0, freq_block_id |-> 0,
             power_block_id |-> 0, caps_block_id |-> 0]

\* kfree(p): NULL is ignored, a live array becomes freed, a freed one is
\* freed again (recorded as undefined)
kfree(m, p) ==
    IF p = NULL THEN m
    ELSE IF p \notin Addr THEN [m EXCEPT !.ub = @ \cup {"wild_free"}]
    ELSE IF m.heap[p].st = "live"
         THEN [m EXCEPT !.heap[p] = FreedArray]
         ELSE [m EXCEPT !.ub = @ \cup {"double_free"}]

FreeAddrs(heap) == {a \in Addr : heap[a].st = "none"}

\* kcalloc(n, sizeof(kind), GFP_KERNEL) of a record array: <<m', p>>.  The
\* allocations of one refresh are counted in m.nalloc; p = NULL when this is
\* the allocation failAt names, or no address is left
kcalloc(m, kind, n, failAt) ==
    LET m1 == [m EXCEPT !.nalloc = @ + 1]
    IN IF m1.nalloc = failAt \/ FreeAddrs(m.heap) = {}
       THEN <<m1, NULL>>
       ELSE LET p == CHOOSE a \in FreeAddrs(m.heap) :
                         \A b \in FreeAddrs(m.heap) : a <= b
            IN <<[m1 EXCEPT !.heap[p] = [st |-> "live", kind |-> kind,
                                         recs |-> [i \in 1..n |-> ZeroRec(kind)] \o <<>>]],
                 p>>

RECURSIVE FreeBlocks(_, _, _)
\* the loop of deinit_occ_resp_buf over blocks[i .. n-1]
FreeBlocks(m, i, n) ==
    IF i >= n THEN m
    ELSE IF i >= Len(m.resp.blocks)
         THEN [m EXCEPT !.ub = @ \cup {"oob_block"}]
         ELSE LET b == m.resp.blocks[i + 1]
              IN FreeBlocks(kfree(kfree(kfree(m, b.sensor), b.power), b.caps),
                            i + 1, n)

\* deinit_occ_resp_buf(p)
deinit_occ_resp_buf(m) ==
    IF ~m.resp.has_blocks THEN m
    ELSE LET f == FreeBlocks(m, 0, m.resp.header.sensor_block_num)
         IN [f EXCEPT !.resp = [ZeroResp EXCEPT !.temp_block_id = NoBlock,
                                                !.freq_block_id = NoBlock,
                                                !.power_block_id = NoBlock,
                                                !.caps_block_id = NoBlock]]

\* the block id field of a sensor type
BlockId(resp, t) ==
    CASE t = "temp" -> resp.temp_block_id
      [] t = "freq" -> resp.freq_block_id
      [] t = "power" -> resp.power_block_id
      [] OTHER -> resp.caps_block_id

\* the array field of struct sensor_data_block a sensor type uses
FieldOf(t) ==
    CASE t \in {"temp", "freq"} -> "sensor"
      [] t = "power" -> "power"
      [] OTHER -> "caps"

BlockField(blk, t) ==
    CASE t \in {"temp", "freq"} -> blk.sensor
      [] t = "power" -> blk.power
      [] OTHER -> blk.caps

\* a pointer read through a block id that is outside the block list
WildPtr == -2

\* occ_get_sensor_by_type(resp, t)
occ_get_sensor_by_type(resp, t) ==
    IF ~resp.has_blocks THEN NULL
    ELSE IF BlockId(resp, t) = NoBlock THEN NULL
    ELSE IF BlockId(resp, t) \in 0..(Len(resp.blocks) - 1)
         THEN BlockField(resp.blocks[BlockId(resp, t) + 1], t)
         ELSE WildPtr

SetBlockId(resp, t, b) ==
    CASE t = "temp" -> [resp EXCEPT !.temp_block_id = b]
      [] t = "freq" -> [resp EXCEPT !.freq_block_id = b]
      [] t = "power" -> [resp EXCEPT !.power_block_id = b]
      [] OTHER -> [resp EXCEPT !.caps_block_id = b]

SetBlockField(blk, t, p) ==
    CASE t \in {"temp", "freq"} -> [blk EXCEPT !.sensor = p]
      [] t = "power" -> [blk EXCEPT !.power = p]
      [] OTHER -> [blk EXCEPT !.caps = p]

\* the test of occ_renew_sensor's four switch arms: no array of this type
\* yet, or its stored record count differs
NeedsNewArray(m, t, sensor, num_of_sensors) ==
    \/ sensor = NULL
    \/ sensor = WildPtr
    \/ num_of_sensors # m.resp.blocks[BlockId(m.resp, t) + 1].num_of_sensors

\* the err: label of occ_renew_sensor
RenewFailure(m) == deinit_occ_resp_buf(m)

\* occ_renew_sensor(resp, sensor_length, num_of_sensors, t, block):
\* [m, ret, oops]; oops is the store through the NULL block list
occ_renew_sensor(m, sensor_length, num_of_sensors, t, block, failAt) ==
    LET sensor == occ_get_sensor_by_type(m.resp, t)
    IN IF num_of_sensors = 0 \/ sensor_length = 0
       THEN [m |-> kfree(m, sensor), ret |-> -1, oops |-> FALSE]
       ELSE IF NeedsNewArray(m, t, sensor, num_of_sensors)
       THEN LET a == kcalloc(kfree(m, sensor), FieldOf(t), num_of_sensors, failAt)
                p == a[2]
                m2 == IF p = NULL THEN [a[1] EXCEPT !.enomem = TRUE] ELSE a[1]
            IN IF ~m2.resp.has_blocks \/ block >= Len(m2.resp.blocks)
               THEN [m |-> m2, ret |-> 0, oops |-> TRUE]
               ELSE LET m3 == [m2 EXCEPT !.resp.blocks[block + 1] =
                                             SetBlockField(@, t, p)]
                    IN IF p = NULL
                       THEN [m |-> RenewFailure(m3), ret |-> -ENOMEM,
                             oops |-> FALSE]
                       ELSE [m |-> m3, ret |-> 0, oops |-> FALSE]
       ELSE [m |-> m, ret |-> 0, oops |-> FALSE]

(***************************************************************************)
(* The raw reply buffer: OCC_DATA_MAX bytes, zeroed by devm_kzalloc, of    *)
(* which the sequence data holds the leading bytes written so far.         *)
(***************************************************************************)
Byte(data, i) == IF i < Len(data) THEN data[i + 1] ELSE 0

\* be16_to_cpup(&data[i]), be32_to_cpup(&data[i])
BE16(data, i) == Byte(data, i) * 256 + Byte(data, i + 1)

\* a 32-bit value is kept as <<high half, low half>>
BE32(data, i) == <<BE16(data, i), BE16(data, i + 2)>>

\* get_occdata_length(data)
get_occdata_length(data) == BE16(data, RESP_DATA_LENGTH)

\* strncpy(dst, &data[i], 4): copies up to the first NUL, pads with NULs
StrNCpy4(data, i) ==
    LET b(k) == Byte(data, i + k)
    IN IF b(0) = 0 THEN <<0, 0, 0, 0>>
       ELSE IF b(1) = 0 THEN <<b(0), 0, 0, 0>>
       ELSE IF b(2) = 0 THEN <<b(0), b(1), 0, 0>>
       ELSE <<b(0), b(1), b(2), b(3)>>

\* strncmp(&data[i], str, Len(str)) == 0, str without NUL
StrNEq(data, i, str) == \A k \in 1..Len(str) : Byte(data, i + k - 1) = str[k]

\* the sensor type a 4-byte tag selects ("" for none)
TypeOfTag(tag) ==
    CASE tag = StrFREQ -> "freq"
      [] tag = StrTEMP -> "temp"
      [] tag = StrPOWR -> "power"
      [] tag = StrCAPS -> "caps"
      [] OTHER -> ""

\* a decoder that reads the fields in the byte order of a little-endian host
LE16(data, i) == Byte(data, i + 1) * 256 + Byte(data, i)

DecodeRec_host_order(data, dnum, t) ==
    CASE t \in {"freq", "temp"} ->
           [sensor_id |-> LE16(data, dnum), value |-> LE16(data, dnum + 2)]
      [] t = "power" ->
           [sensor_id |-> LE16(data, dnum),
            update_tag |-> <<LE16(data, dnum + 4), LE16(data, dnum + 2)>>,
            accumulator |-> <<LE16(data, dnum + 8), LE16(data, dnum + 6)>>,
            value |-> LE16(data, dnum + 10)]
      [] OTHER ->
           [curr_powercap |-> LE16(data, dnum),
            curr_powerreading |-> LE16(data, dnum + 2),
            norm_powercap |-> LE16(data, dnum + 4),
            max_powercap |-> LE16(data, dnum + 6),
            min_powercap |-> LE16(data, dnum + 8),
            user_powerlimit |-> LE16(data, dnum + 10)]

\* the record the decode loop of a type reads at data[dnum]
DecodeRec(data, dnum, t) ==
    CASE t \in {"freq", "temp"} ->
           [sensor_id |-> BE16(data, dnum), value |-> BE16(data, dnum + 2)]
      [] t = "power" ->
           [sensor_id |-> BE16(data, dnum), update_tag |-> BE32(data, dnum + 2),
            accumulator |-> BE32(data, dnum + 6), value |-> BE16(data, dnum + 10)]
      [] OTHER ->
           [curr_powercap |-> BE16(data, dnum),
            curr_powerreading |-> BE16(data, dnum + 2),
            norm_powercap |-> BE16(data, dnum + 4),
            max_powercap |-> BE16(data, dnum + 6),
            min_powercap |-> BE16(data, dnum + 8),
            user_powerlimit |-> BE16(data, dnum + 10)]

\* what a read of the raw buffer up to offset end (not included) runs past:
\* the OCC_DATA_MAX bytes of the buffer (line 606), and the reply the device
\* declared, which is 5 bytes of header, the data and 2 bytes of checksum
ReadPast(data, end) ==
    (IF end > OCC_DATA_MAX THEN {"read_past_raw"} ELSE {})
    \cup (IF end > get_occdata_length(data) + 7 THEN {"read_past_reply"} ELSE {})

\* bytes of a record the decoder of a type reads
FieldBytes(t) == IF t \in {"freq", "temp"} THEN 4 ELSE 12

\* the store into resp->blocks[b].<field>[s]: [m, oops]
StoreRec(m, b, t, s, rec) ==
    LET p == BlockField(m.resp.blocks[b + 1], t)
    IN IF p = NULL THEN [m |-> m, oops |-> TRUE]
       ELSE IF m.heap[p].st # "live"
       THEN [m |-> [m EXCEPT !.ub = @ \cup {"write_freed"}], oops |-> FALSE]
       ELSE IF s >= Len(m.heap[p].recs)
       THEN [m |-> [m EXCEPT !.ub = @ \cup {"write_past_end"}], oops |-> FALSE]
       ELSE [m |-> [m EXCEPT !.heap[p].recs[s + 1] = rec], oops |-> FALSE]

RECURSIVE DecodeRecs_fixed_stride(_, _, _, _, _, _, _)
\* a decode loop that advances by the bytes it has read instead of the
\* declared record length
DecodeRecs_fixed_stride(m, data, dnum, b, t, s, hd) ==
    IF s >= hd.num_of_sensors THEN [m |-> m, oops |-> FALSE, dnum |-> dnum]
    ELSE LET w == StoreRec(m, b, t, s, DecodeRec(data, dnum, t))
         IN IF w.oops THEN [m |-> m, oops |-> TRUE, dnum |-> dnum]
            ELSE DecodeRecs_fixed_stride(w.m, data, dnum + FieldBytes(t), b, t,
                                         s + 1, hd)

RECURSIVE DecodeRecs(_, _, _, _, _, _, _)
\* the inner for loop of a block: records s .. num-1 of block b, read from
\* data[dnum] on: [m, oops, dnum]
DecodeRecs(m, data, dnum, b, t, s, hd) ==
    IF s >= hd.num_of_sensors THEN [m |-> m, oops |-> FALSE, dnum |-> dnum]
    ELSE LET w == StoreRec(m, b, t, s, DecodeRec(data, dnum, t))
             m1 == [w.m EXCEPT !.ub = @ \cup ReadPast(data, dnum + FieldBytes(t))]
         IN IF w.oops THEN [m |-> m, oops |-> TRUE, dnum |-> dnum]
            ELSE DecodeRecs(m1, data, dnum + hd.sensor_length, b, t, s + 1, hd)

\* lines 536-539: the block's prologue is stored for the next refresh
StorePrologue(m, b, tag, hd) ==
    [m EXCEPT !.resp.blocks[b + 1] =
        [@ EXCEPT !.sensor_type = tag, !.sensor_format = hd.sensor_format,
                  !.sensor_length = hd.sensor_length,
                  !.num_of_sensors = hd.num_of_sensors]]

\* a parser that ends the walk at an unknown tag without an error
UnknownTag_skipped(m) == [m |-> m, oops |-> FALSE, ret |-> 0, decoded |-> {}]

\* the else arm of the tag dispatch: ret = -1; goto err
UnknownTag(m) ==
    [m |-> deinit_occ_resp_buf(m), oops |-> FALSE, ret |-> -1, decoded |-> {}]

RECURSIVE ParseBlocks(_, _, _, _, _, _, _)
\* the for loop of parse_occ_response from block b on, the cursor at dnum:
\* [m, oops, ret, decoded], decoded the blocks whose records were stored
ParseBlocks(m, data, dnum, b, sensor_block_num, failAt, decoded) ==
    IF b >= sensor_block_num
    THEN [m |-> m, oops |-> FALSE, ret |-> 0, decoded |-> decoded]
    ELSE LET tag == StrNCpy4(data, dnum)
             hd == [sensor_format |-> Byte(data, dnum + 5),
                    sensor_length |-> Byte(data, dnum + 6),
                    num_of_sensors |-> Byte(data, dnum + 7)]
             m0 == [m EXCEPT !.ub = @ \cup ReadPast(data, dnum + 8)]
             t == TypeOfTag(tag)
         IN IF t = "" THEN UnknownTag(m0)
            ELSE LET r == occ_renew_sensor(m0, hd.sensor_length,
                                           hd.num_of_sensors, t, b, failAt)
                 IN IF r.oops
                    THEN [m |-> r.m, oops |-> TRUE, ret |-> 0, decoded |-> decoded]
                    ELSE IF r.ret # 0
                    THEN ParseBlocks(r.m, data, dnum + 8, b + 1,
                                     sensor_block_num, failAt, decoded)
                    ELSE LET m1 == [r.m EXCEPT !.resp = SetBlockId(@, t, b)]
                             d == DecodeRecs(m1, data, dnum + 8, b, t, 0, hd)
                         IN IF d.oops
                            THEN [m |-> d.m, oops |-> TRUE, ret |-> 0,
                                  decoded |-> decoded]
                            ELSE ParseBlocks(StorePrologue(d.m, b, tag, hd),
                                             data, d.dnum, b + 1,
                                             sensor_block_num, failAt,
                                             decoded \cup {b})

\* a header copy that leaves the block count out
HeaderOf_count_dropped(data) ==
    [error_log_addr_start |-> BE32(data, RESP_HEADER_OFFSET + 8),
     error_log_length |-> BE16(data, RESP_HEADER_OFFSET + 12),
     sensor_block_num |-> 0]

\* lines 395-399: the header copied from the raw buffer
HeaderOf(data) ==
    [error_log_addr_start |-> BE32(data, RESP_HEADER_OFFSET + 8),
     error_log_length |-> BE16(data, RESP_HEADER_OFFSET + 12),
     sensor_block_num |-> Byte(data, RESP_HEADER_OFFSET + 38)]

\* a parser that does not look at the signature
SignatureOk_unchecked(data) == TRUE

\* line 372: strncmp(&data[SENSOR_STR_OFFSET], "SENSOR", 6) == 0
SignatureOk(data) == StrNEq(data, SENSOR_STR_OFFSET, StrSENSOR)

\* a parser that accepts a block count of zero
BlockCountOk_any(n) == TRUE

\* line 380: sensor_block_num == 0 is an error
BlockCountOk(n) == n # 0

\* the err: label of parse_occ_response
ParseError(m) ==
    [m |-> deinit_occ_resp_buf(m), oops |-> FALSE, ret |-> -1, decoded |-> {}]

\* line 387: sensor_block_num != resp->header.sensor_block_num
BlockCountChanged(n, stored) == n # stored

\* parse_occ_response(client, data, resp): [m, oops, ret, decoded]
parse_occ_response(m, data, failAt) ==
    LET sensor_block_num == Byte(data, SENSOR_BLOCK_NUM_OFFSET)
    IN IF ~SignatureOk(data) THEN ParseError(m)
       ELSE IF ~BlockCountOk(sensor_block_num) THEN ParseError(m)
       ELSE LET changed == BlockCountChanged(sensor_block_num,
                                            m.resp.header.sensor_block_num)
                m1 == IF changed
                      THEN [deinit_occ_resp_buf(m) EXCEPT !.nalloc = @ + 1]
                      ELSE m
                nomem == changed /\ m1.nalloc = failAt
                m2 == IF changed /\ ~nomem
                      THEN [m1 EXCEPT !.resp.has_blocks = TRUE,
                                      !.resp.blocks =
                                          [i \in 1..sensor_block_num |-> ZeroBlock] \o <<>>]
                      ELSE IF changed
                      THEN [m1 EXCEPT !.resp.has_blocks = FALSE,
                                      !.resp.blocks = <<>>]
                      ELSE m1
            IN IF nomem
               THEN [m |-> m2, oops |-> FALSE, ret |-> -ENOMEM, decoded |-> {}]
               ELSE ParseBlocks([m2 EXCEPT !.resp.header = HeaderOf(data)],
                                data, SENSOR_BLOCK_OFFSET, 0, sensor_block_num,
                                failAt, {})

(***************************************************************************)
(* Register access and the command exchange.  A 32-bit word is the         *)
(* sequence of its four bytes, most significant first.  A fault names the  *)
(* one allocation ("alloc") or register transfer ("xfer") of a refresh     *)
(* that fails, counted from 1 in the order the refresh makes them.         *)
(***************************************************************************)
ATTN_DATA == 438325
OCB_ADDRESS == 438384
OCB_DATA == 438389
OCB_STATUS_CONTROL_AND == 438386
OCB_STATUS_CONTROL_OR == 438387
OCC_COMMAND_ADDR == <<255, 255, 96, 0>>
OCC_RESPONSE_ADDR == <<255, 255, 112, 0>>
Word0 == <<0, 0, 0, 0>>

NoFault == [kind |-> "none", at |-> 0]

XferFails(fault, k) == fault.kind = "xfer" /\ fault.at = k

FailAt(fault) == IF fault.kind = "alloc" THEN fault.at ELSE 0

\* occ_putscom(client, address, data0, data1) as the k-th transfer: the bus
\* record it leaves; its return value is not read by any caller
occ_putscom(address, data0, data1, fault, k) ==
    [op |-> "putscom", reg |-> address, data0 |-> data0, data1 |-> data1,
     offset |-> 0, ok |-> ~XferFails(fault, k)]

\* the bus record of occ_getscomb(client, address, data, offset)
GetscombOp(address, offset, fault, k) ==
    [op |-> "getscomb", reg |-> address, data0 |-> Word0, data1 |-> Word0,
     offset |-> offset, ok |-> ~XferFails(fault, k)]

\* the 8 bytes i2c_master_recv delivers for the doubleword of the device's
\* reply memory dev at offset: the P8 i2c slave sends the last byte first
WireBytes(dev, offset) == [i \in 1..8 |-> Byte(dev, offset + 8 - i)] \o <<>>

\* the first n bytes of the buffer, and those from n on
Upto(data, n) == [i \in 1..n |-> Byte(data, i - 1)] \o <<>>
From(data, n) == IF Len(data) > n THEN SubSeq(data, n + 1, Len(data)) ELSE <<>>

\* lines 207-208: data[offset + i] = buf[7 - i] for i in 0..7
Store8(data, buf, offset) ==
    Upto(data, offset)
    \o <<buf[8], buf[7], buf[6], buf[5], buf[4], buf[3], buf[2], buf[1]>>
    \o From(data, offset + 8)

\* occ_getscomb(client, address, data, offset) as the k-th transfer: the
\* buffer afterwards; a short transfer leaves it as it was, and a store past
\* OCC_DATA_MAX is outside the buffer
occ_getscomb(data, dev, offset, fault, k) ==
    IF XferFails(fault, k) \/ offset + 8 > OCC_DATA_MAX THEN data
    ELSE Store8(data, WireBytes(dev, offset), offset)

\* the bytes of a 16-bit sum
Lo8(x) == x % 256
Hi8(x) == (x \div 256) % 256

RECURSIVE SumBytes(_)
SumBytes(bs) == IF bs = <<>> THEN 0 ELSE bs[1] + SumBytes(Tail(bs))

RECURSIVE BitOr(_, _)
\* a | b
BitOr(a, b) ==
    IF a = 0 THEN b
    ELSE IF b = 0 THEN a
    ELSE (IF a % 2 = 1 \/ b % 2 = 1 THEN 1 ELSE 0) + 2 * BitOr(a \div 2, b \div 2)

\* v | w on 32-bit words
Or32(v, w) == [i \in 1..4 |-> BitOr(v[i], w[i])] \o <<>>

\* line 562: cmd2 <<= (4 - length) * 8 after the memcpy of line 561 into
\* the low bytes of cmd2 (little-endian host).  cmd2 is not initialised: for
\* length 1 and 2 the shift moves that content out; for length 0 nothing is
\* copied and the shift by 32 is undefined, g being the word the build
\* leaves in cmd2
ShiftedPayload(length, payload, g) ==
    CASE length = 0 -> g
      [] length = 1 -> <<payload[1], 0, 0, 0>>
      [] OTHER -> <<payload[2], payload[1], 0, 0>>

\* checksum << 16 whatever the payload length
ChecksumWord_top(length, checksum) == <<Hi8(checksum), Lo8(checksum), 0, 0>>

\* line 570: checksum << ((2 - length) * 8)
ChecksumWord(length, checksum) ==
    CASE length = 0 -> <<Hi8(checksum), Lo8(checksum), 0, 0>>
      [] length = 1 -> <<0, Hi8(checksum), Lo8(checksum), 0>>
      [] OTHER -> <<0, 0, Hi8(checksum), Lo8(checksum)>>

\* lines 565-569: the 16-bit sum of the bytes of cmd1 and cmd2
Checksum(cmd1, cmd2) == (SumBytes(cmd1) + SumBytes(cmd2)) % 65536

\* lines 559-570: <<cmd1, cmd2>>
EncodeCmd(seq, type, length, payload, g) ==
    LET cmd1 == <<seq, type, Hi8(length), Lo8(length)>>
        shifted == ShiftedPayload(length, payload, g)
    IN <<cmd1, Or32(shifted, ChecksumWord(length, Checksum(cmd1, shifted)))>>

\* an exchange that raises the attention before it has written the command
\* words
occ_send_cmd_attn_first(seq, type, length, payload, dev, fault) ==
    LET cmd == EncodeCmd(seq, type, length, payload, Word0)
        resp == occ_getscomb(<<>>, dev, 0, fault, 8)
    IN [ops |-> << occ_putscom(OCB_STATUS_CONTROL_OR, <<8, 0, 0, 0>>, Word0, fault, 1),
                   occ_putscom(OCB_STATUS_CONTROL_AND, <<251, 255, 255, 255>>,
                               <<255, 255, 255, 255>>, fault, 2),
                   occ_putscom(OCB_ADDRESS, OCC_COMMAND_ADDR, Word0, fault, 3),
                   occ_putscom(OCB_ADDRESS, OCC_COMMAND_ADDR, Word0, fault, 4),
                   occ_putscom(ATTN_DATA, <<1, 1, 0, 0>>, Word0, fault, 5),
                   occ_putscom(OCB_DATA, cmd[1], cmd[2], fault, 6),
                   occ_putscom(OCB_ADDRESS, OCC_RESPONSE_ADDR, Word0, fault, 7),
                   GetscombOp(OCB_DATA, 0, fault, 8) >>,
        resp |-> resp,
        status |-> Byte(resp, 2)]

\* occ_send_cmd(client, seq, type, length, data, resp) for a payload of 1 or
\* 2 bytes, where the content cmd2 had before is shifted out: the eight
\* transfers, numbered from 1, and the reply buffer resp afterwards
occ_send_cmd(seq, type, length, payload, dev, fault) ==
    LET cmd == EncodeCmd(seq, type, length, payload, Word0)
        resp == occ_getscomb(<<>>, dev, 0, fault, 8)
    IN [ops |-> << occ_putscom(OCB_STATUS_CONTROL_OR, <<8, 0, 0, 0>>, Word0, fault, 1),
                   occ_putscom(OCB_STATUS_CONTROL_AND, <<251, 255, 255, 255>>,
                               <<255, 255, 255, 255>>, fault, 2),
                   occ_putscom(OCB_ADDRESS, OCC_COMMAND_ADDR, Word0, fault, 3),
                   occ_putscom(OCB_ADDRESS, OCC_COMMAND_ADDR, Word0, fault, 4),
                   occ_putscom(OCB_DATA, cmd[1], cmd[2], fault, 5),
                   occ_putscom(ATTN_DATA, <<1, 1, 0, 0>>, Word0, fault, 6),
                   occ_putscom(OCB_ADDRESS, OCC_RESPONSE_ADDR, Word0, fault, 7),
                   GetscombOp(OCB_DATA, 0, fault, 8) >>,
        resp |-> resp,
        status |-> Byte(resp, 2)]

\* one pass of the loop of lines 632-633, the read at offset i being the
\* k-th transfer: [data, ops, past], past telling a store beyond the raw
\* buffer
ReadOne(r, dev, i, fault, k) ==
    [data |-> occ_getscomb(r.data, dev, i, fault, k),
     ops |-> Append(r.ops, GetscombOp(OCB_DATA, i, fault, k)),
     past |-> r.past \/ i + 8 > OCC_DATA_MAX]

RECURSIVE ReadRemaining(_, _, _, _, _, _)
\* the loop of lines 632-633 from offset i on, the next transfer being the
\* k-th
ReadRemaining(r, dev, i, num_bytes, fault, k) ==
    IF i >= num_bytes + 8 THEN r
    ELSE ReadRemaining(ReadOne(r, dev, i, fault, k),
                       dev, i + 8, num_bytes, fault, k + 1)

\* a poll whose status byte is not looked at
StatusRejected_ignored(status) == FALSE

\* line 609: a non-zero status byte rejects the poll
StatusRejected(status) == status # 0

\* occ_get_all(client, occ_resp) against the device reply dev:
\* [m, oops, ret, decoded, ops, parsed, data], data being the raw buffer
occ_get_all(m, dev, fault) ==
    LET m0 == [m EXCEPT !.nalloc = 1]
        c == occ_send_cmd(0, 0, 1, <<16>>, dev, fault)
        num_bytes == get_occdata_length(c.resp)
        out(mm, ret, ops) == [m |-> mm, oops |-> FALSE, ret |-> ret,
                              decoded |-> {}, ops |-> ops, parsed |-> FALSE,
                              data |-> c.resp]
    IN IF FailAt(fault) = 1
       THEN [m |-> m0, oops |-> TRUE, ret |-> 0, decoded |-> {},
             ops |-> c.ops, parsed |-> FALSE, data |-> <<>>]
       ELSE IF StatusRejected(c.status) THEN out(m0, -EINVAL, c.ops)
       ELSE IF num_bytes > OCC_DATA_MAX THEN out(m0, -EINVAL, c.ops)
       ELSE IF num_bytes <= 0 THEN out(m0, -EINVAL, c.ops)
       ELSE LET r == ReadRemaining([data |-> c.resp, ops |-> c.ops,
                                    past |-> FALSE],
                                   dev, 8, num_bytes, fault, 9)
                m1 == IF r.past
                      THEN [m0 EXCEPT !.ub = @ \cup {"write_past_raw"}]
                      ELSE m0
                p == parse_occ_response(m1, r.data, FailAt(fault))
            IN [m |-> p.m, oops |-> p.oops, ret |-> p.ret,
                decoded |-> p.decoded, ops |-> r.ops, parsed |-> TRUE,
                data |-> r.data]

(***************************************************************************)
(* The device side: the reply memory of the OCC for a poll, built from a   *)
(* description [status, sig, nblocks, blocks], each block [tag, len, recs],*)
(* recs being num records of the tag's type.  Multi-byte fields are        *)
(* big-endian; each record occupies len bytes.                             *)
(***************************************************************************)
Enc16(v) == <<(v \div 256) % 256, v % 256>>

Enc32(w) == Enc16(w[1]) \o Enc16(w[2])

Zeros(n) == [i \in 1..n |-> 0] \o <<>>

\* bs cut or zero-padded to n bytes
Fit(bs, n) == [i \in 1..n |-> IF i <= Len(bs) THEN bs[i] ELSE 0] \o <<>>

EncRec(t, r) ==
    CASE t \in {"freq", "temp"} -> Enc16(r.sensor_id) \o Enc16(r.value)
      [] t = "power" -> Enc16(r.sensor_id) \o Enc32(r.update_tag)
                        \o Enc32(r.accumulator) \o Enc16(r.value)
      [] OTHER -> Enc16(r.curr_powercap) \o Enc16(r.curr_powerreading)
                  \o Enc16(r.norm_powercap) \o Enc16(r.max_powercap)
                  \o Enc16(r.min_powercap) \o Enc16(r.user_powerlimit)

RECURSIVE EncRecs(_, _, _)
EncRecs(t, recs, len) ==
    IF recs = <<>> THEN <<>>
    ELSE Fit(EncRec(t, Head(recs)), len) \o EncRecs(t, Tail(recs), len)

EncBlock(b) ==
    b.tag \o <<0, 1, b.len, Len(b.recs)>>
    \o (IF TypeOfTag(b.tag) = "" THEN Zeros(b.len * Len(b.recs))
        ELSE EncRecs(TypeOfTag(b.tag), b.recs, b.len))

RECURSIVE EncBlocks(_)
EncBlocks(bs) == IF bs = <<>> THEN <<>> ELSE EncBlock(Head(bs)) \o EncBlocks(Tail(bs))

\* the reply memory: 5 bytes of response header, the 40-byte poll header
\* (the signature at 37, the block count at 43), the blocks from 45 on and
\* two checksum bytes; the data length counts the bytes between
EncReply(d) ==
    LET body == Zeros(32) \o d.sig \o <<d.nblocks, 1>> \o EncBlocks(d.blocks)
    IN <<0, 0, d.status>> \o Enc16(IF d.dlen = -1 THEN Len(body) ELSE d.dlen)
       \o body \o <<0, 0>>

(***************************************************************************)
(* The replies the modelled device gives.                                  *)
(***************************************************************************)
\* record s of a block whose values belong to generation g
GenRec(t, g, s) ==
    CASE t \in {"freq", "temp"} -> [sensor_id |-> s + 1, value |-> 256 * g + s]
      [] t = "power" -> [sensor_id |-> s + 1, update_tag |-> <<g, s>>,
                         accumulator |-> <<s, 256 * g>>, value |-> 256 * g + s]
      [] OTHER -> [curr_powercap |-> 256 * g, curr_powerreading |-> g,
                   norm_powercap |-> 256 * g + 1, max_powercap |-> 256 * g + 2,
                   min_powercap |-> g + 1, user_powerlimit |-> s]

GenBlock(tag, len, num, g) ==
    [tag |-> tag, len |-> len,
     recs |-> [s \in 1..num |-> GenRec(TypeOfTag(tag), g, s - 1)] \o <<>>]

GoodReply(blocks) ==
    [status |-> 0, sig |-> StrSENSOR, nblocks |-> Len(blocks), dlen |-> -1,
     blocks |-> blocks]

\* the blocks the modelled device puts into a reply
Freq(n) == GenBlock(StrFREQ, 4, n, 1)
Temp(n) == GenBlock(StrTEMP, 4, n, 1)
Powr(n) == GenBlock(StrPOWR, 12, n, 1)
Caps(n) == GenBlock(StrCAPS, 12, n, 1)
Xyzz(n) == GenBlock(StrXYZZ, 4, n, 1)

\* replies of one block, of two blocks, and the ones validation rejects
OneBlockReplies ==
    {GoodReply(<<b>>) : b \in {Freq(0), Freq(1), Freq(MaxRecs), Temp(1), Powr(1),
                               Caps(1), Xyzz(1), GenBlock(StrFREQ, 4, 1, 2)}}
TwoBlockReplies ==
    {GoodReply(<<Freq(1), Temp(1)>>), GoodReply(<<Temp(1), Freq(1)>>),
     GoodReply(<<Freq(1), Xyzz(1)>>), GoodReply(<<Xyzz(1), Freq(1)>>),
     GoodReply(<<Freq(0), Temp(1)>>),
     GoodReply(<<GenBlock(StrFREQ, 6, MaxRecs, 1), Temp(1)>>)}
OddReplies ==
    {GoodReply(<<GenBlock(StrFREQ, 0, 1, 1)>>),
     GoodReply(<<GenBlock(StrFREQ, 6, 1, 1)>>)}
BadReplies ==
    {[GoodReply(<<GenBlock(StrFREQ, 4, 1, 1)>>) EXCEPT !.sig = <<83, 69, 78, 83, 79, 0>>],
     [GoodReply(<<GenBlock(StrFREQ, 4, 1, 1)>>) EXCEPT !.sig = Zeros(6)],
     [GoodReply(<<GenBlock(StrFREQ, 4, 1, 1)>>) EXCEPT !.nblocks = 0],
     [GoodReply(<<GenBlock(StrFREQ, 4, 1, 1)>>) EXCEPT !.status = 19],
     [GoodReply(<<GenBlock(StrFREQ, 4, 1, 1)>>) EXCEPT !.dlen = 0],
     [GoodReply(<<GenBlock(StrFREQ, 4, 1, 1)>>) EXCEPT !.dlen = OCC_DATA_MAX + 1]}

\* the replies of the sequential specification, and the few of the
\* concurrent one
ParseReplies == OneBlockReplies \cup TwoBlockReplies \cup OddReplies \cup BadReplies
CacheReplies ==
    {GoodReply(<<GenBlock(StrFREQ, 4, 1, 1)>>),
     GoodReply(<<GenBlock(StrFREQ, 4, 2, 1)>>),
     [GoodReply(<<GenBlock(StrFREQ, 4, 1, 1)>>) EXCEPT !.sig = Zeros(6)]}

\* the faults of the sequential specification: none, one of the first
\* MaxAllocFault allocations, or one of three register transfers (the write
\* of the command words, the poll read, the read of bytes 40-47)
MaxAllocFault == 4
ParseFaults ==
    {NoFault} \cup {[kind |-> "alloc", at |-> k] : k \in 1..MaxAllocFault}
    \cup {[kind |-> "xfer", at |-> k] : k \in {5, 8, 13}}

(***************************************************************************)
(* The state.                                                              *)
(***************************************************************************)
VARIABLES
    valid,            \* occ_drv_data.valid
    last_updated,     \* occ_drv_data.last_updated
    update_interval,  \* occ_drv_data.update_interval
    occ_online,       \* occ_drv_data.occ_online
    nattr,            \* attribute groups created per sensor type
    resp,             \* occ_drv_data.occ_resp
    heap,             \* the record arrays
    ub,               \* undefined operations of the last step on memory
    update_lock,      \* 0 or the thread holding occ_drv_data.update_lock
    jiffies,          \* the kernel clock
    removed,          \* occ_remove has run
    pc,               \* per thread: where its handler stands
    call,             \* per thread: the handler it runs
    ret,              \* per thread: what occ_update_device returned
    fetched,          \* per thread: its call ran occ_get_all
    ops,              \* per thread: register transfers of its call
    ptr,              \* per thread: the pointer occ_get_sensor returned
    val,              \* per thread: the value its show routine printed
    obs,              \* the last occ_get_all: its input and outcome
    cmd,              \* the command last encoded: its inputs and its frame
    bus,              \* the callers on the bus, one entry per unbroken run of transfers
    user_powercap     \* occ_drv_data.user_powercap

vars == <<valid, last_updated, update_interval, occ_online, nattr, resp, heap,
          ub, update_lock, jiffies, removed, pc, call, ret, fetched, ops, ptr,
          val, obs, cmd, bus, user_powercap>>

Threads == 1..NumThreads

\* no command has been encoded
NoCmd == [seq |-> 0, type |-> 0, length |-> -1, payload |-> <<>>,
          frame |-> <<Word0, Word0>>]

NoCall == [kind |-> "none", t |-> "", n |-> 0]
NoObs == [by |-> 0, data |-> <<>>, fault |-> NoFault, ret |-> 0, oops |-> FALSE,
          decoded |-> {}, parsed |-> FALSE, enomem |-> FALSE, before |-> ZeroResp,
          heap_before |-> <<>>]
\* what a show routine prints for an array it may not read
Garbage == -2

\* occ_probe: the driver data is zeroed, the interval is HZ
Init ==
    /\ valid = FALSE
    /\ last_updated = 0
    /\ update_interval = HZ
    /\ occ_online = 0
    /\ nattr = [t \in SensorT |-> 0]
    /\ resp = ZeroResp
    /\ heap = [a \in Addr |-> NoArray]
    /\ ub = {}
    /\ update_lock = 0
    /\ jiffies = 0
    /\ removed = FALSE
    /\ pc = [t \in Threads |-> "idle"]
    /\ call = [t \in Threads |-> NoCall]
    /\ ret = [t \in Threads |-> 0]
    /\ fetched = [t \in Threads |-> FALSE]
    /\ ops = [t \in Threads |-> <<>>]
    /\ ptr = [t \in Threads |-> NULL]
    /\ val = [t \in Threads |-> 0]
    /\ obs = NoObs
    /\ cmd = NoCmd
    /\ bus = <<>>
    /\ user_powercap = 0

\* the pointers stored anywhere: in the block list and in the callers
Referenced(r, ps) ==
    {r.blocks[i].sensor : i \in 1..Len(r.blocks)}
    \cup {r.blocks[i].power : i \in 1..Len(r.blocks)}
    \cup {r.blocks[i].caps : i \in 1..Len(r.blocks)}
    \cup {ps[t] : t \in Threads}

\* a freed array no pointer refers to can never be told from one that was
\* never allocated: its address goes back to the allocator
Reclaim(h, r, ps) ==
    [a \in Addr |-> IF h[a].st = "freed" /\ a \notin Referenced(r, ps)
                    THEN NoArray ELSE h[a]]

\* the memory a step starts from; ub collects what the step itself does
Mem == [resp |-> resp, heap |-> heap, ub |-> {}, nalloc |-> 0, enomem |-> FALSE]

\* time_after(a, b) for a clock that has not wrapped
time_after(a, b) == a > b

\* msecs_to_jiffies(m)
msecs_to_jiffies(m) == (m * HZ + 999) \div 1000

\* the decision without the test of valid, and without any test
Stale_time_only(now) == time_after(now, last_updated + update_interval)

Stale_always(now) == TRUE

\* lines 651-652: the refresh decision
Stale(now) == time_after(now, last_updated + update_interval) \/ ~valid

\* a lock that excludes nobody
CanLock_always(t) == TRUE

\* mutex_lock(&data->update_lock) returns
CanLock(t) == update_lock = 0

(***************************************************************************)
(* The handlers, one action per step between two points where another      *)
(* thread can run.                                                         *)
(***************************************************************************)
\* a read of a hwmon attribute starts: show_occ_*(hwmon_dev, da, buf) calls
\* occ_get_sensor, which calls occ_update_device
StartShow(t, st, n) ==
    /\ pc[t] = "idle" /\ occ_online = 1 /\ ~removed
    /\ n < nattr[st]
    /\ call' = [call EXCEPT ![t] = [kind |-> "show", t |-> st, n |-> n]]
    /\ pc' = [pc EXCEPT ![t] = "lock"]
    /\ UNCHANGED <<cmd, bus, user_powercap, valid, last_updated, update_interval, occ_online, nattr, resp,
                   heap, ub, update_lock, jiffies, removed, ret, fetched, ops,
                   ptr, val, obs>>

\* set_occ_online(1) while offline: occ_create_hwmon_attribute resets the
\* four block ids (lines 1217-1220) and calls occ_update_device
StartOnline(t) ==
    /\ pc[t] = "idle" /\ occ_online = 0 /\ ~removed
    /\ \A u \in Threads : call[u].kind # "online" \/ pc[u] = "idle"
    /\ resp' = [resp EXCEPT !.freq_block_id = NoBlock, !.temp_block_id = NoBlock,
                            !.power_block_id = NoBlock, !.caps_block_id = NoBlock]
    /\ call' = [call EXCEPT ![t] = [kind |-> "online", t |-> "", n |-> 0]]
    /\ pc' = [pc EXCEPT ![t] = "lock"]
    /\ UNCHANGED <<cmd, bus, user_powercap, valid, last_updated, update_interval, occ_online, nattr,
                   heap, ub, update_lock, jiffies, removed, ret, fetched, ops,
                   ptr, val, obs>>

\* lines 649-653: mutex_lock(&data->update_lock) returns and the refresh is
\* decided under the lock; valid is set before the attempt
Acquire(t) ==
    /\ pc[t] = "lock" /\ CanLock(t)
    /\ update_lock' = t
    /\ IF Stale(jiffies)
       THEN /\ valid' = TRUE
            /\ pc' = [pc EXCEPT ![t] = "fetch"]
       ELSE /\ valid' = valid
            /\ pc' = [pc EXCEPT ![t] = "unlock"]
    /\ UNCHANGED <<cmd, bus, user_powercap, last_updated, update_interval, occ_online, nattr, resp, heap,
                   ub, jiffies, removed, call, ret, fetched, ops, ptr, val, obs>>

\* a refresh that leaves valid set whatever occ_get_all returned
ValidAfter_kept(r) == TRUE

\* a refresh that clears valid on success and keeps it on failure
ValidAfter_inverted(r) == r # 0

\* lines 655-656: if (ret) data->valid = 0
ValidAfter(r) == r = 0

\* lines 654-657: occ_get_all against the reply d under a fault, then valid
\* and last_updated.  A NULL dereference inside ends the thread with the
\* lock held
Fetch(t, d, fault) ==
    /\ pc[t] = "fetch"
    /\ \E g \in {occ_get_all(Mem, EncReply(d), fault)} :
          /\ resp' = g.m.resp
          /\ heap' = Reclaim(g.m.heap, g.m.resp, ptr)
          /\ ub' = g.m.ub
          /\ ops' = [ops EXCEPT ![t] = g.ops]
          /\ fetched' = [fetched EXCEPT ![t] = TRUE]
          /\ obs' = [by |-> t, data |-> g.data, fault |-> fault,
                     ret |-> g.ret, oops |-> g.oops, decoded |-> g.decoded,
                     parsed |-> g.parsed, enomem |-> g.m.enomem,
                     before |-> resp, heap_before |-> heap]
          /\ IF g.oops
             THEN /\ pc' = [pc EXCEPT ![t] = "oops"]
                  /\ UNCHANGED <<valid, last_updated, ret>>
             ELSE /\ pc' = [pc EXCEPT ![t] = "unlock"]
                  /\ ret' = [ret EXCEPT ![t] = g.ret]
                  /\ valid' = ValidAfter(g.ret)
                  /\ last_updated' = jiffies
    /\ UNCHANGED <<cmd, bus, user_powercap, update_interval, occ_online, nattr, update_lock, jiffies,
                   removed, call, ptr, val>>

\* the bus once the exchange of caller t is over and forgotten
OffBus(t) == SelectSeq(bus, LAMBDA e : e # t)

\* line 659: mutex_unlock(&data->update_lock); what the call is known to
\* have done on the bus and in memory is forgotten with it
Unlock(t) ==
    /\ pc[t] = "unlock"
    /\ update_lock' = 0
    /\ pc' = [pc EXCEPT ![t] = "after"]
    /\ fetched' = [fetched EXCEPT ![t] = FALSE]
    /\ ops' = [ops EXCEPT ![t] = <<>>]
    /\ obs' = NoObs
    /\ ub' = {}
    /\ bus' = OffBus(t)
    /\ UNCHANGED <<cmd, user_powercap, valid, last_updated, update_interval, occ_online,
                   nattr, resp, heap, jiffies, removed, call, ret, ptr, val>>

\* the record count occ_create_hwmon_attribute reads for a type (lines
\* 1242-1290)
AttrCount(r, st) ==
    IF BlockId(r, st) >= 0 /\ BlockId(r, st) < Len(r.blocks)
    THEN r.blocks[BlockId(r, st) + 1].num_of_sensors
    ELSE 0

\* after occ_update_device returned.  occ_get_sensor (lines 672-677) looks
\* the array up, or returns NULL on an error; occ_create_hwmon_attribute
\* (lines 1223-1228, 1242-1300) gives up on an error or a NULL block list and
\* else creates the attribute groups, after which set_occ_online sets
\* occ_online
AfterUpdate(t) ==
    /\ pc[t] = "after"
    /\ IF call[t].kind = "show"
       THEN /\ ptr' = [ptr EXCEPT ![t] =
                          IF ret[t] # 0 THEN NULL
                          ELSE occ_get_sensor_by_type(resp, call[t].t)]
            /\ pc' = [pc EXCEPT ![t] = "deref"]
            /\ UNCHANGED <<occ_online, nattr>>
       ELSE /\ pc' = [pc EXCEPT ![t] = "done"]
            /\ ptr' = ptr
            /\ IF ret[t] = 0 /\ resp.has_blocks /\ ~removed
               THEN /\ occ_online' = 1
                    /\ nattr' = [st \in SensorT |-> AttrCount(resp, st)]
               ELSE UNCHANGED <<occ_online, nattr>>
    /\ UNCHANGED <<cmd, bus, user_powercap, valid, last_updated, update_interval, resp, heap, ub,
                   update_lock, jiffies, removed, call, ret, fetched, ops, val,
                   obs>>

\* what the input routine of a type prints of a record (lines 694, 746,
\* 783), and show_occ_caps for nr = 0 (line 805)
ShownField(st, r) ==
    CASE st = "temp" -> r.value * 1000
      [] st = "caps" -> r.curr_powercap
      [] OTHER -> r.value

\* the show routine uses the pointer (lines 690-694 and alike): -1 for NULL,
\* else a field of sensor[n]; reading a freed or too short array is undefined
\* and prints whatever is there
Deref(t) ==
    /\ pc[t] = "deref"
    /\ LET p == ptr[t]
           n == call[t].n
       IN IF p = NULL
          THEN /\ val' = [val EXCEPT ![t] = -1]
               /\ ub' = {}
          ELSE IF p \notin Addr \/ heap[p].st # "live"
          THEN /\ val' = [val EXCEPT ![t] = Garbage]
               /\ ub' = {"read_freed"}
          ELSE IF n >= Len(heap[p].recs)
          THEN /\ val' = [val EXCEPT ![t] = Garbage]
               /\ ub' = {"read_past_end"}
          ELSE /\ val' = [val EXCEPT ![t] = ShownField(call[t].t, heap[p].recs[n + 1])]
               /\ ub' = {}
    /\ pc' = [pc EXCEPT ![t] = "done"]
    /\ UNCHANGED <<cmd, bus, user_powercap, valid, last_updated, update_interval, occ_online, nattr, resp,
                   heap, update_lock, jiffies, removed, call, ret, fetched, ops,
                   ptr, obs>>

\* the handler returns to user space
Return(t) ==
    /\ pc[t] = "done"
    /\ pc' = [pc EXCEPT ![t] = "idle"]
    /\ call' = [call EXCEPT ![t] = NoCall]
    /\ ret' = [ret EXCEPT ![t] = 0]
    /\ val' = [val EXCEPT ![t] = 0]
    /\ ptr' = [ptr EXCEPT ![t] = NULL]
    /\ heap' = Reclaim(heap, resp, ptr')
    /\ ub' = {}
    /\ bus' = OffBus(t)
    /\ UNCHANGED <<cmd, user_powercap, valid, last_updated, update_interval, occ_online,
                   nattr, resp, update_lock, jiffies, removed, fetched, ops, obs>>

\* the clock advances
Tick ==
    /\ jiffies < MaxJiffies
    /\ jiffies' = jiffies + 1
    /\ UNCHANGED <<cmd, bus, user_powercap, valid, last_updated, update_interval, occ_online, nattr, resp,
                   heap, ub, update_lock, removed, pc, call, ret, fetched, ops,
                   ptr, val, obs>>

\* set_update_interval (lines 1109-1124), ms milliseconds written
SetInterval(ms) ==
    /\ occ_online = 1 /\ ~removed
    /\ update_interval' = msecs_to_jiffies(ms)
    /\ UNCHANGED <<cmd, bus, user_powercap, valid, last_updated, occ_online, nattr, resp, heap, ub,
                   update_lock, jiffies, removed, pc, call, ret, fetched, ops,
                   ptr, val, obs>>

\* set_occ_online(0) while online (lines 1351-1357): the attribute groups
\* are removed, which waits for the show routines in flight
Offline ==
    /\ occ_online = 1 /\ ~removed
    /\ \A t \in Threads : pc[t] = "idle"
    /\ occ_online' = 0
    /\ nattr' = [st \in SensorT |-> 0]
    /\ UNCHANGED <<cmd, bus, user_powercap, valid, last_updated, update_interval, resp, heap, ub,
                   update_lock, jiffies, removed, pc, call, ret, fetched, ops,
                   ptr, val, obs>>

\* occ_remove (lines 1402-1417): the response is torn down, without the lock
Remove ==
    /\ ~removed
    /\ LET m == deinit_occ_resp_buf(Mem)
       IN /\ resp' = m.resp
          /\ heap' = Reclaim(m.heap, m.resp, ptr)
          /\ ub' = m.ub
    /\ removed' = TRUE
    /\ occ_online' = 0
    /\ nattr' = [st \in SensorT |-> 0]
    /\ UNCHANGED <<cmd, bus, user_powercap, valid, last_updated, update_interval, update_lock, jiffies,
                   pc, call, ret, fetched, ops, ptr, val, obs>>

Intervals == {500 * k : k \in 0..MaxIntervalSteps}

(***************************************************************************)
(* Spec: NumThreads callers against a device with a few replies.           *)
(***************************************************************************)
Next ==
    \/ \E t \in Threads, st \in SensorT, n \in 0..(MaxRecs - 1) : StartShow(t, st, n)
    \/ \E t \in Threads : StartOnline(t)
    \/ \E t \in Threads : Acquire(t)
    \/ \E t \in Threads, d \in CacheReplies : Fetch(t, d, NoFault)
    \/ \E t \in Threads : Unlock(t)
    \/ \E t \in Threads : AfterUpdate(t)
    \/ \E t \in Threads : Deref(t)
    \/ \E t \in Threads : Return(t)
    \/ Tick
    \/ \E ms \in Intervals : SetInterval(ms)
    \/ Offline
    \/ Remove

Spec == Init /\ [][Next]_vars

(***************************************************************************)
(* SpecParse: one caller, the clock standing still while it runs, against  *)
(* a device with every modelled reply.                                     *)
(***************************************************************************)
NextParse ==
    \/ \E st \in SensorT, n \in 0..(MaxRecs - 1) : StartShow(1, st, n)
    \/ StartOnline(1)
    \/ Acquire(1)
    \/ \E d \in ParseReplies, f \in ParseFaults : Fetch(1, d, f)
    \/ Unlock(1)
    \/ AfterUpdate(1)
    \/ Deref(1)
    \/ Return(1)
    \/ (pc[1] = "idle" /\ Tick)
    \/ (pc[1] = "idle" /\ \E ms \in Intervals : SetInterval(ms))
    \/ (pc[1] = "idle" /\ Offline)
    \/ (pc[1] = "idle" /\ Remove)

SpecParse == Init /\ [][NextParse]_vars

(***************************************************************************)
(* SpecRetrieve: occ_get_all taken one register read at a time, against a  *)
(* device whose poll reply declares one of a few data lengths.  The raw    *)
(* buffer is obs.data and the transfers made so far are ops; the read      *)
(* cursor i of line 632 follows from their number.                         *)
(***************************************************************************)
\* the data lengths the device declares: the least, one that ends before
\* the block it sends, an ordinary one, the ones around the last doubleword
\* of the raw buffer, and two that validation rejects
RetrieveLengths ==
    {0, 1, 44, 52, OCC_DATA_MAX - 8, OCC_DATA_MAX - 7, OCC_DATA_MAX,
     OCC_DATA_MAX + 1}

\* the reply memory of a device that declares L bytes of data
LongReply(L) == EncReply([GoodReply(<<Freq(1)>>) EXCEPT !.dlen = L])

\* the cursor i of the loop of line 632 after the transfers made so far
ReadCursor(t) == 8 * (Len(ops[t]) - 7)

\* lines 606-629: the raw buffer, the poll and the validation of its reply
Poll(t, L) ==
    /\ pc[t] = "fetch"
    /\ \E c \in {occ_send_cmd(0, 0, 1, <<16>>, LongReply(L), NoFault)} :
          /\ ops' = [ops EXCEPT ![t] = c.ops]
          /\ fetched' = [fetched EXCEPT ![t] = TRUE]
          /\ IF \/ StatusRejected(c.status)
                \/ get_occdata_length(c.resp) > OCC_DATA_MAX
                \/ get_occdata_length(c.resp) <= 0
             THEN /\ obs' = [NoObs EXCEPT !.by = t, !.data = c.resp,
                                          !.fault = NoFault, !.ret = -EINVAL,
                                          !.before = resp, !.heap_before = heap]
                  /\ pc' = [pc EXCEPT ![t] = "unlock"]
                  /\ ret' = [ret EXCEPT ![t] = -EINVAL]
                  /\ valid' = ValidAfter(-EINVAL)
                  /\ last_updated' = jiffies
             ELSE /\ obs' = [NoObs EXCEPT !.data = c.resp, !.fault = NoFault,
                                          !.before = resp, !.heap_before = heap]
                  /\ pc' = [pc EXCEPT ![t] = "read"]
                  /\ UNCHANGED <<ret, valid, last_updated>>
    /\ UNCHANGED <<cmd, bus, user_powercap, update_interval, occ_online, nattr, resp, heap, ub,
                   update_lock, jiffies, removed, call, ptr, val>>

\* lines 632-633: one occ_getscomb of the retrieval loop
ReadStep(t) ==
    /\ pc[t] = "read"
    /\ ReadCursor(t) < get_occdata_length(obs.data) + 8
    /\ \E r \in {ReadOne([data |-> obs.data, ops |-> ops[t], past |-> FALSE],
                         LongReply(get_occdata_length(obs.data)),
                         ReadCursor(t), NoFault, Len(ops[t]) + 1)} :
          /\ obs' = [obs EXCEPT !.data = r.data]
          /\ ops' = [ops EXCEPT ![t] = r.ops]
          /\ ub' = IF r.past THEN ub \cup {"write_past_raw"} ELSE ub
    /\ UNCHANGED <<cmd, bus, user_powercap, valid, last_updated, update_interval, occ_online, nattr, resp,
                   heap, update_lock, jiffies, removed, pc, call, ret, fetched,
                   ptr, val>>

\* line 635 and lines 656-657: the loop has ended and the raw buffer is
\* parsed
Parse(t) ==
    /\ pc[t] = "read"
    /\ ReadCursor(t) >= get_occdata_length(obs.data) + 8
    /\ \E p \in {parse_occ_response([Mem EXCEPT !.nalloc = 1, !.ub = ub],
                                    obs.data, 0)} :
          /\ resp' = p.m.resp
          /\ heap' = Reclaim(p.m.heap, p.m.resp, ptr)
          /\ ub' = p.m.ub
          /\ obs' = [obs EXCEPT !.by = t, !.ret = p.ret, !.oops = p.oops,
                                !.decoded = p.decoded, !.parsed = TRUE,
                                !.enomem = p.m.enomem]
          /\ IF p.oops
             THEN /\ pc' = [pc EXCEPT ![t] = "oops"]
                  /\ UNCHANGED <<valid, last_updated, ret>>
             ELSE /\ pc' = [pc EXCEPT ![t] = "unlock"]
                  /\ ret' = [ret EXCEPT ![t] = p.ret]
                  /\ valid' = ValidAfter(p.ret)
                  /\ last_updated' = jiffies
    /\ UNCHANGED <<cmd, bus, user_powercap, update_interval, occ_online, nattr, update_lock, jiffies,
                   removed, call, fetched, ops, ptr, val>>

NextRetrieve ==
    \/ StartOnline(1)
    \/ Acquire(1)
    \/ \E L \in RetrieveLengths : Poll(1, L)
    \/ ReadStep(1)
    \/ Parse(1)
    \/ Unlock(1)
    \/ AfterUpdate(1)
    \/ Return(1)

SpecRetrieve == Init /\ [][NextRetrieve]_vars

(***************************************************************************)
(* The refresh cache (occ_update_device), checked under Spec.              *)
(***************************************************************************)
\* the cache is fresh: the last refresh succeeded and the interval counted
\* from its time stamp has not elapsed
Fresh == valid /\ jiffies <= last_updated + update_interval

\* thread t takes the lock and decides
Decides(t) == pc[t] = "lock" /\ pc'[t] # "lock"

\* C1: a call that finds the last refresh successful and not older than
\* update_interval does not fetch, a call after the interval fetches, and a
\* call that does not fetch changes neither the snapshot nor valid nor
\* last_updated and makes no register transfer
C1_Throttling ==
    [][\A t \in Threads :
        /\ Decides(t) /\ Fresh
             => pc'[t] = "unlock" /\ ~fetched'[t]
                /\ UNCHANGED <<resp, heap, valid, last_updated>>
        /\ Decides(t) /\ time_after(jiffies, last_updated + update_interval)
             => pc'[t] = "fetch"
        /\ pc[t] = "unlock" /\ ~fetched[t]
             => ops[t] = <<>>
                /\ (pc'[t] # "unlock" => UNCHANGED <<resp, heap, valid, last_updated>>)
      ]_vars

\* C1 witness: a show routine holds the lock without having fetched, the
\* snapshot of an earlier successful refresh being still fresh
C1_Witness ==
    \E t \in Threads :
        /\ pc[t] = "unlock" /\ ~fetched[t] /\ call[t].kind = "show"
        /\ Fresh /\ resp.has_blocks /\ ops[t] = <<>>

\* C5: a call that finds valid false fetches, whatever the clock says
C5_InvalidForcesFetch ==
    [][\A t \in Threads : Decides(t) /\ ~valid => pc'[t] = "fetch"]_vars

\* C5 witness: a show routine is about to fetch although the interval since
\* the last attempt has not elapsed
C5_Witness ==
    \E t \in Threads :
        /\ pc[t] = "fetch" /\ call[t].kind = "show"
        /\ ~time_after(jiffies, last_updated + update_interval)

\* a fetch of thread t returns an error
FetchFails(t) == pc[t] = "fetch" /\ pc'[t] = "unlock" /\ ret'[t] # 0

InRefresh(t) == pc[t] \in {"fetch", "unlock", "oops"}

\* thread b waits for the lock while thread a, having fetched, holds it
WaitsBehind(a, b) == a # b /\ pc[a] = "unlock" /\ fetched[a] /\ pc[b] = "lock"

\* C2 as amended: the lock is held from the decision to the end of the
\* refresh, so at most one refresh is in progress; a caller that waits behind
\* a fetch that succeeded finds the cache fresh, and does not fetch, as long
\* as the interval counted from that fetch has not elapsed
C2_OneRefreshAtATime ==
    /\ \A t \in Threads : InRefresh(t) <=> update_lock = t
    /\ \A a, b \in Threads :
          WaitsBehind(a, b) /\ ret[a] = 0
          /\ jiffies <= last_updated + update_interval
            => ~Stale(jiffies)

\* C2 as stated: of the callers that arrive together exactly one fetches; a
\* caller that waits behind a fetch finds the cache fresh when the clock has
\* not moved since
C2_ExactlyOneFetch ==
    /\ \A t \in Threads : InRefresh(t) <=> update_lock = t
    /\ \A a, b \in Threads :
          WaitsBehind(a, b) /\ jiffies = last_updated => ~Stale(jiffies)

\* C2 witness: a caller waits for the lock behind a fetch that has succeeded
\* and is still fresh
C2_Witness ==
    \E a, b \in Threads :
        WaitsBehind(a, b) /\ ret[a] = 0 /\ Fresh /\ resp.has_blocks

\* C3 as stated: no step of another caller changes the array a reader has
\* looked up and not yet read, a reader reads only a live array within its
\* length, and a live array is changed or freed only by the holder of the
\* lock
C3_ReadsUnderLock ==
    [][/\ \A t \in Threads :
            pc[t] = "deref" /\ pc'[t] = "deref" /\ ptr[t] \in Addr
              => heap'[ptr[t]] = heap[ptr[t]]
       /\ \A t \in Threads :
            pc[t] = "deref" /\ pc'[t] = "done"
              => ub' \cap {"read_freed", "read_past_end"} = {}
       /\ (\E a \in Addr : heap[a].st = "live" /\ heap'[a] # heap[a])
              => \E t \in Threads : update_lock = t /\ pc[t] = "fetch"
      ]_vars

(***************************************************************************)
(* The parser and the storage manager, checked under SpecParse in the      *)
(* state a refresh leaves: obs describes the occ_get_all just finished.    *)
(***************************************************************************)
\* a refresh has just ended, by returning or in an oops
Observed == obs.by # 0

\* a refresh has just returned to occ_update_device
Returned == Observed /\ ~obs.oops

BlockIds(r) ==
    {r.temp_block_id, r.freq_block_id, r.power_block_id, r.caps_block_id}

\* the snapshot after deinit_occ_resp_buf
FullyReset(r) == ~r.has_blocks /\ r.blocks = <<>> /\ BlockIds(r) = {NoBlock}

\* an array pointer that may be followed
LiveArray(h, p) == p \in Addr /\ h[p].st = "live"

\* the snapshot of a successful parse: every block id names a block of its
\* type with a live array of the stored record count, and no block holds a
\* pointer to anything else than a live array
FullyValid(r, h) ==
    /\ r.has_blocks
    /\ Len(r.blocks) = r.header.sensor_block_num
    /\ \A t \in SensorT :
         \/ BlockId(r, t) = NoBlock
         \/ /\ BlockId(r, t) \in 0..(Len(r.blocks) - 1)
            /\ LET blk == r.blocks[BlockId(r, t) + 1]
               IN /\ TypeOfTag(blk.sensor_type) = t
                  /\ LiveArray(h, BlockField(blk, t))
                  /\ Len(h[BlockField(blk, t)].recs) = blk.num_of_sensors
    /\ \A i \in 1..Len(r.blocks) :
         \A p \in {r.blocks[i].sensor, r.blocks[i].power, r.blocks[i].caps} :
            p = NULL \/ LiveArray(h, p)

RECURSIVE Prologues(_, _, _, _)
\* the prologues of blocks b .. n-1 of a reply as the device laid them out,
\* the b-th at data[dnum]
Prologues(data, dnum, b, n) ==
    IF b >= n THEN <<>>
    ELSE LET len == Byte(data, dnum + 6)
             num == Byte(data, dnum + 7)
         IN <<[tag |-> StrNCpy4(data, dnum), len |-> len, num |-> num]>>
            \o Prologues(data, dnum + 8 + len * num, b + 1, n)

\* the buffer reads "SENSOR" at offset 37
HasSignature(data) ==
    <<Byte(data, 37), Byte(data, 38), Byte(data, 39), Byte(data, 40),
      Byte(data, 41), Byte(data, 42)>> = <<83, 69, 78, 83, 79, 82>>

\* the block prologues of a buffer that passes the header checks, else none
BlocksIn(data) ==
    IF HasSignature(data) /\ Byte(data, SENSOR_BLOCK_NUM_OFFSET) > 0
    THEN Prologues(data, SENSOR_BLOCK_OFFSET, 0, Byte(data, SENSOR_BLOCK_NUM_OFFSET))
    ELSE <<>>

\* C6 as stated: when kcalloc of a record array fails during a parse the
\* refresh returns -ENOMEM with the snapshot torn down, and valid is false
C6_AllocFailureFailsRefresh ==
    Observed /\ obs.enomem
      => /\ ~obs.oops
         /\ obs.ret = -ENOMEM
         /\ ~valid
         /\ FullyReset(resp)

\* C7 as stated: a refresh that returns an error has run the teardown, and
\* the snapshot any refresh leaves is fully valid or fully reset
C7_ErrorLeavesValidOrReset ==
    Returned
      => /\ obs.ret # 0 => FullyReset(resp)
         /\ FullyValid(resp, heap) \/ FullyReset(resp)

\* the sensor type of the first block when that block retires it, else ""
RetiredType(data) ==
    IF BlocksIn(data) # <<>>
       /\ (BlocksIn(data)[1].len = 0 \/ BlocksIn(data)[1].num = 0)
    THEN TypeOfTag(BlocksIn(data)[1].tag)
    ELSE ""

\* C8 as stated: after a parse of a reply whose first block retires a known
\* type, the array the type had is released, once, the type's block id is
\* the sentinel and a lookup of the type returns NULL
C8_RetiredTypeAbsent ==
    Returned /\ obs.parsed /\ RetiredType(obs.data) # ""
      => LET t == RetiredType(obs.data)
             old == occ_get_sensor_by_type(obs.before, t)
         IN /\ BlockId(resp, t) = NoBlock
            /\ occ_get_sensor_by_type(resp, t) = NULL
            /\ old \in Addr => heap[old].st # "live"
            /\ "double_free" \notin ub

\* a block of the reply carries a tag that is none of the four
HasUnknownTag(data) ==
    \E i \in 1..Len(BlocksIn(data)) : TypeOfTag(BlocksIn(data)[i].tag) = ""

C10_BadSignatureFailsParse ==
    Observed /\ obs.parsed /\ ~HasSignature(obs.data)
      => /\ ~obs.oops
         /\ obs.ret = -1
         /\ obs.decoded = {}
         /\ ~valid
         /\ \A a \in Addr : heap[a].st = "live" => heap[a] = obs.heap_before[a]

\* C10 witness: a buffer with a wrong signature and a well-formed block has
\* been parsed over a stored snapshot
C10_Witness ==
    /\ Observed /\ obs.parsed /\ ~HasSignature(obs.data)
    /\ Byte(obs.data, SENSOR_BLOCK_NUM_OFFSET) = 1
    /\ StrNCpy4(obs.data, SENSOR_BLOCK_OFFSET) = StrFREQ
    /\ obs.before.has_blocks /\ obs.ret = -1

\* the arrays the block list r points to
ArraysOf(r) ==
    UNION {{r.blocks[i].sensor, r.blocks[i].power, r.blocks[i].caps} :
             i \in 1..Len(r.blocks)} \cap Addr

\* C11: a parse of a buffer with the signature and a block count of zero
\* fails, and the snapshot stored before is torn down: no array of it is
\* live, there is no block list and the block ids are the sentinel
C11_ZeroBlockCountFailsParse ==
    Observed /\ obs.parsed /\ HasSignature(obs.data)
    /\ Byte(obs.data, SENSOR_BLOCK_NUM_OFFSET) = 0
      => /\ ~obs.oops
         /\ obs.ret = -1
         /\ obs.decoded = {}
         /\ ~valid
         /\ FullyReset(resp)
         /\ \A a \in ArraysOf(obs.before) : heap[a].st # "live"

\* C11 witness: a buffer with the signature and no blocks has been parsed
\* over a stored snapshot that held a live array
C11_Witness ==
    /\ Observed /\ obs.parsed /\ HasSignature(obs.data)
    /\ Byte(obs.data, SENSOR_BLOCK_NUM_OFFSET) = 0
    /\ obs.before.has_blocks
    /\ \E a \in ArraysOf(obs.before) : obs.heap_before[a].st = "live"
    /\ obs.ret = -1 /\ FullyReset(resp)

\* the raw buffer begins with the bytes bs
BeginsWith(data, bs) == \A i \in 1..Len(bs) : Byte(data, i - 1) = bs[i]

\* the replies of one FREQ block of N >= 1 records of 4 bytes
FreqReplies ==
    {d \in OneBlockReplies :
        /\ d.blocks[1].tag = StrFREQ /\ d.blocks[1].len = 4
        /\ Len(d.blocks[1].recs) >= 1}

\* the parse just finished ran without a fault of the bus or the allocator
Undisturbed == obs.fault = NoFault /\ ~obs.enomem

\* C12: a parse of a buffer that encodes N >= 1 (sensor_id, value) pairs as
\* one FREQ block, over a snapshot that is empty or fully valid, succeeds,
\* freq_block_id names block 0 and the array of block 0 holds exactly these
\* N records in their order
C12_FreqRoundTrip ==
    \A d \in FreqReplies :
        Observed /\ obs.parsed /\ Undisturbed /\ BeginsWith(obs.data, EncReply(d))
        /\ (FullyValid(obs.before, obs.heap_before) \/ ~obs.before.has_blocks)
          => /\ ~obs.oops /\ obs.ret = 0
             /\ resp.has_blocks /\ Len(resp.blocks) = 1
             /\ resp.freq_block_id = 0
             /\ resp.blocks[1].num_of_sensors = Len(d.blocks[1].recs)
             /\ LiveArray(heap, resp.blocks[1].sensor)
             /\ heap[resp.blocks[1].sensor].recs = d.blocks[1].recs
\* C12 witness: a FREQ block of MaxRecs records with two-byte values has
\* been parsed and its records are stored in order
C12_Witness ==
    \E d \in FreqReplies :
        /\ Observed /\ obs.parsed /\ Undisturbed /\ BeginsWith(obs.data, EncReply(d))
        /\ Len(d.blocks[1].recs) = MaxRecs
        /\ d.blocks[1].recs[MaxRecs].value > 255
        /\ resp.freq_block_id = 0
        /\ LiveArray(heap, resp.blocks[1].sensor)
        /\ heap[resp.blocks[1].sensor].recs = d.blocks[1].recs
\* the replies whose blocks all carry a known tag and at least one record
Decodable ==
    {d \in OneBlockReplies \cup TwoBlockReplies \cup OddReplies :
        \A b \in 1..Len(d.blocks) :
            /\ TypeOfTag(d.blocks[b].tag) # ""
            /\ d.blocks[b].len > 0
            /\ Len(d.blocks[b].recs) > 0}

\* snapshot r holds type t as parsed: among n blocks its block id names a
\* block of its tag whose array is live and has the stored record count
Held(r, h, t, n) ==
    /\ r.has_blocks
    /\ r.header.sensor_block_num = n
    /\ Len(r.blocks) = n
    /\ BlockId(r, t) \in 0..(n - 1)
    /\ LET blk == r.blocks[BlockId(r, t) + 1]
       IN /\ TypeOfTag(blk.sensor_type) = t
          /\ LiveArray(h, BlockField(blk, t))
          /\ Len(h[BlockField(blk, t)].recs) = blk.num_of_sensors

\* the array snapshot r holds for type t, and its record count
HeldArray(r, t) == BlockField(r.blocks[BlockId(r, t) + 1], t)
HeldCount(r, t) == r.blocks[BlockId(r, t) + 1].num_of_sensors

\* a parse of reply d has just ended undisturbed
ParsedReply(d) ==
    Observed /\ obs.parsed /\ Undisturbed /\ BeginsWith(obs.data, EncReply(d))

\* C13 as stated: a parse of a block of a type the snapshot holds with N
\* records, at whatever block position.  With
\* the same count N the parse succeeds, the held array stays live, the array
\* the type has afterwards is one that was live before, and it holds the new
\* records; with another count M > 0 the held array is released, and the
\* block being decoded has an array that was not live before, of exactly M
\* records, the new ones
C13_ReuseOrReallocate ==
    \A d \in Decodable : \A b \in 1..Len(d.blocks) :
        LET t == TypeOfTag(d.blocks[b].tag)
            M == Len(d.blocks[b].recs)
        IN ParsedReply(d) /\ Held(obs.before, obs.heap_before, t, Len(d.blocks))
             => /\ ~obs.oops
                /\ obs.ret = 0
                /\ BlockId(resp, t) = b - 1
                /\ LET a == HeldArray(obs.before, t)
                       x == BlockField(resp.blocks[b], t)
                   IN /\ LiveArray(heap, x)
                      /\ heap[x].recs = d.blocks[b].recs
                      /\ IF HeldCount(obs.before, t) = M
                         THEN /\ heap[a].st = "live"
                              /\ obs.heap_before[x].st = "live"
                         ELSE /\ heap[a].st # "live"
                              /\ obs.heap_before[x].st # "live"

\* the snapshot and the heap after deinit_occ_resp_buf in the present state
TornDown == deinit_occ_resp_buf(Mem)

\* teardown in the present state releases every array of the block list
\* by one kfree each, leaves every lookup absent, and is idempotent
TeardownComplete ==
    /\ TornDown.ub = {}
    /\ \A a \in ArraysOf(resp) : TornDown.heap[a].st = "freed"
    /\ FullyReset(TornDown.resp)
    /\ \A t \in SensorT : occ_get_sensor_by_type(TornDown.resp, t) = NULL
    /\ deinit_occ_resp_buf(TornDown) = TornDown

\* C14 as stated, for the snapshots that have a block list: in every
\* reachable state, deinit_occ_resp_buf releases every typed array of every
\* block and the block list, sets the four block ids to the sentinel, and a
\* second teardown changes and frees nothing
C14_TeardownFromAnyState == resp.has_blocks => TeardownComplete

\* the sensor types of the blocks of a buffer that carry records
TypesIn(data) ==
    {TypeOfTag(BlocksIn(data)[i].tag) :
        i \in {j \in 1..Len(BlocksIn(data)) :
                  BlocksIn(data)[j].len > 0 /\ BlocksIn(data)[j].num > 0}}

\* block id of type t in snapshot r is the sentinel or names a block of r
\* whose stored tag is the tag of t
IndexSound(r, t) ==
    \/ BlockId(r, t) = NoBlock
    \/ /\ BlockId(r, t) \in 0..(Len(r.blocks) - 1)
       /\ TypeOfTag(r.blocks[BlockId(r, t) + 1].sensor_type) = t

\* every block of the buffer carries records
NoEmptyBlock(data) ==
    \A i \in 1..Len(BlocksIn(data)) :
        BlocksIn(data)[i].len > 0 /\ BlocksIn(data)[i].num > 0

\* C15 as stated, for replies without an empty block: after a successful
\* parse each block id is the sentinel or the position of a block whose
\* stored tag is that type, and it is the sentinel exactly when the reply
\* just parsed had no block of that type
C15_IndexInvariant ==
    Returned /\ obs.parsed /\ obs.ret = 0 /\ Undisturbed /\ NoEmptyBlock(obs.data)
      => \A t \in SensorT :
            /\ IndexSound(resp, t)
            /\ BlockId(resp, t) = NoBlock <=> t \notin TypesIn(obs.data)

\* the record-array fields of a block that hold a pointer
Populated(blk) ==
    {f \in {"sensor", "power", "caps"} :
        CASE f = "sensor" -> blk.sensor # NULL
          [] f = "power" -> blk.power # NULL
          [] OTHER -> blk.caps # NULL}

\* C16 as stated: in every state each block of the block list has at most
\* one of sensor, power and caps populated, the field of its stored tag
C16_OneFieldPerBlock ==
    \A i \in 1..Len(resp.blocks) :
        \A f \in Populated(resp.blocks[i]) :
            /\ TypeOfTag(resp.blocks[i].sensor_type) # ""
            /\ f = FieldOf(TypeOfTag(resp.blocks[i].sensor_type))

\* the transfers a refresh made after the one that failed
LaterTransfers == {k \in 1..Len(ops[obs.by]) : k > obs.fault.at}

\* C17 as stated: a refresh in which a register transfer was short returns
\* an error, makes no transfer after the short one and does not run the
\* parser
C17_ShortTransferSurfaced ==
    Observed /\ obs.fault.kind = "xfer" /\ ~ops[obs.by][obs.fault.at].ok
      => /\ ~obs.oops
         /\ obs.ret < 0
         /\ LaterTransfers = {}
         /\ ~obs.parsed

\* the length the first 8 bytes of the raw buffer declare (bytes 3 and 4)
DeclaredLength(data) == Byte(data, 3) * 256 + Byte(data, 4)

\* the poll reply in the raw buffer has a non-zero status byte, or declares
\* a length of 0 or of more than OCC_DATA_MAX
PollInvalid(data) ==
    \/ Byte(data, 2) # 0
    \/ DeclaredLength(data) = 0
    \/ DeclaredLength(data) > OCC_DATA_MAX

\* C18: a refresh whose poll reply has a non-zero status byte or a declared
\* length of 0 or above 4096 returns an error after the eight transfers of
\* the exchange, without a further register read and without running the
\* parser, and the block list, the block ids and every live array are as
\* they were before the refresh
C18_InvalidPollRejected ==
    Observed /\ Undisturbed /\ PollInvalid(obs.data)
      => /\ ~obs.oops
         /\ obs.ret = -EINVAL
         /\ Len(ops[obs.by]) = 8
         /\ ~obs.parsed
         /\ resp = obs.before
         /\ \A a \in Addr :
               obs.heap_before[a].st = "live" => heap[a] = obs.heap_before[a]

\* C18 witness: a poll reply with a non-zero status byte and an acceptable
\* length was rejected while the snapshot held a live array
C18_Witness ==
    /\ Observed /\ Undisturbed /\ obs.ret = -EINVAL
    /\ Byte(obs.data, 2) # 0
    /\ DeclaredLength(obs.data) \in 1..OCC_DATA_MAX
    /\ resp.has_blocks
    /\ \E a \in ArraysOf(resp) : LiveArray(heap, a)

\* the reads of the retrieval loop made so far: the transfers after the
\* eight of the exchange
LoopReads(t) == {k \in 1..Len(ops[t]) : k > 8}

\* C19 as stated: the reads of the retrieval loop are at the offsets 8, 16,
\* 24, ... in this order, and each read at offset i has i + 8 <= 4096, so
\* that no byte is stored outside the raw buffer
C19_ReadsInsideBuffer ==
    /\ \A k \in LoopReads(1) :
          /\ ops[1][k].op = "getscomb"
          /\ ops[1][k].offset = 8 * (k - 8)
          /\ ops[1][k].offset + 8 <= OCC_DATA_MAX
    /\ "write_past_raw" \notin ub

\* what a transfer did on the bus, whether or not it was short
OnBus(o) == <<o.op, o.reg, o.data0, o.data1, o.offset>>

\* the eight transfers of the poll exchange on the bus: the command words
\* of the poll are 0x00000001 and 0x10001100
PollExchange ==
    << <<"putscom", OCB_STATUS_CONTROL_OR, <<8, 0, 0, 0>>, <<0, 0, 0, 0>>, 0>>,
       <<"putscom", OCB_STATUS_CONTROL_AND, <<251, 255, 255, 255>>,
         <<255, 255, 255, 255>>, 0>>,
       <<"putscom", OCB_ADDRESS, <<255, 255, 96, 0>>, <<0, 0, 0, 0>>, 0>>,
       <<"putscom", OCB_ADDRESS, <<255, 255, 96, 0>>, <<0, 0, 0, 0>>, 0>>,
       <<"putscom", OCB_DATA, <<0, 0, 0, 1>>, <<16, 0, 17, 0>>, 0>>,
       <<"putscom", ATTN_DATA, <<1, 1, 0, 0>>, <<0, 0, 0, 0>>, 0>>,
       <<"putscom", OCB_ADDRESS, <<255, 255, 112, 0>>, <<0, 0, 0, 0>>, 0>>,
       <<"getscomb", OCB_DATA, <<0, 0, 0, 0>>, <<0, 0, 0, 0>>, 0>> >>

\* C20: the transfers of a refresh begin with the eight of the exchange in
\* the fixed order (control OR, control AND, command address twice, the two
\* command words, attention, response address, read of 8 bytes into offset
\* 0), and the status the exchange returns is byte 2 of the bytes read: a
\* refresh goes on to the parser only when that byte is 0 and is rejected
\* with -EINVAL when it is not
C20_ExchangeOrder ==
    /\ \A t \in Threads :
          ops[t] # <<>>
            => /\ Len(ops[t]) >= 8
               /\ \A k \in 1..8 : OnBus(ops[t][k]) = PollExchange[k]
    /\ Observed /\ Undisturbed
         => /\ obs.parsed => Byte(obs.data, 2) = 0
            /\ Byte(obs.data, 2) # 0 => ~obs.parsed /\ obs.ret = -EINVAL

\* C20 witness: a refresh has made the exchange with the command words of
\* the poll, read on and run the parser
C20_Witness ==
    /\ Observed /\ Undisturbed
    /\ Len(ops[obs.by]) > 8
    /\ obs.parsed
    /\ OnBus(ops[obs.by][5]) = PollExchange[5]

\* thread t's occ_get_all returns to occ_update_device in this step
AttemptEnds(t) == pc[t] = "fetch" /\ pc'[t] = "unlock"

\* thread t sets valid before its attempt in this step (line 653)
AttemptBegins(t) == pc[t] = "lock" /\ pc'[t] = "fetch"

\* C21: when the attempt of a call returns, valid is true exactly when it
\* returned 0 and last_updated is the time then, after a success and after
\* a failure alike; valid and last_updated change in no step other than the
\* begin of an attempt, which sets valid under the lock, and its end
C21_ValidTracksAttempt ==
    [][/\ \A t \in Threads :
             AttemptEnds(t)
               => /\ valid' = (ret'[t] = 0)
                  /\ last_updated' = jiffies
       /\ (valid' # valid \/ last_updated' # last_updated)
            => \E t \in Threads :
                  \/ AttemptEnds(t)
                  \/ AttemptBegins(t) /\ valid' /\ last_updated' = last_updated
                     /\ update_lock' = t]_vars

\* C21 witness: an attempt made after the clock has advanced has failed,
\* valid is false and last_updated is the time of the attempt
C21_Witness ==
    \E t \in Threads :
        /\ pc[t] = "unlock" /\ fetched[t]
        /\ ret[t] # 0
        /\ ~valid
        /\ jiffies > 0
        /\ last_updated = jiffies

\* the block count the buffer declares differs from the stored one
CountDiffers == Byte(obs.data, SENSOR_BLOCK_NUM_OFFSET)
                  # obs.before.header.sensor_block_num

\* a parse has just returned 0 undisturbed
ParsedOk == Returned /\ obs.parsed /\ obs.ret = 0 /\ Undisturbed

\* the types snapshot r holds among its blocks
HeldTypes(r, h) == {t \in SensorT : Held(r, h, t, Len(r.blocks))}

\* the record count the reply declares for type t: -1 when it has no block
\* of the type, 0 when the block's record length is 0
DeclaredCount(data, t) ==
    LET P == BlocksIn(data)
        I == {i \in 1..Len(P) : TypeOfTag(P[i].tag) = t}
        k == CHOOSE i \in I : TRUE
    IN IF I = {} THEN -1 ELSE IF P[k].len = 0 THEN 0 ELSE P[k].num

\* C22 as stated: a successful parse of a reply whose block count differs from the
\* stored one leaves no array of the old snapshot live, no block id of a type
\* the reply lacks, and only arrays that were not live before in its blocks;
\* a parse of a reply with the stored block count keeps the block list, its
\* length and block ids, and every held array whose type the reply lacks or
\* declares with the held count stays live
C22_BlockListRenewedOnCountChange ==
    ParsedOk
      => IF CountDiffers
         THEN /\ \A a \in ArraysOf(obs.before) : heap[a].st # "live"
              /\ \A t \in SensorT :
                    t \notin TypesIn(obs.data) => BlockId(resp, t) = NoBlock
              /\ \A a \in ArraysOf(resp) : obs.heap_before[a].st # "live"
              /\ Len(resp.blocks) = Byte(obs.data, SENSOR_BLOCK_NUM_OFFSET)
         ELSE /\ resp.has_blocks
              /\ Len(resp.blocks) = Len(obs.before.blocks)
              /\ \A t \in HeldTypes(obs.before, obs.heap_before) :
                    DeclaredCount(obs.data, t) \in {-1, HeldCount(obs.before, t)}
                      => /\ heap[HeldArray(obs.before, t)].st = "live"
                         /\ BlockId(resp, t) # NoBlock

\* every block of the buffer was decoded by the parse just made
AllDecoded == obs.decoded = 0..(Len(BlocksIn(obs.data)) - 1)

\* C23: a parse of a reply made of blocks with records, when it returns,
\* has succeeded and decoded every block, the prologue stored for block b
\* is the one the buffer holds at 45 plus the sum over
\* the blocks before it of 8 + record count * declared record length, and a
\* live array of the block holds the records the device laid out with that
\* stride
C23_CursorFollowsDeclaredLength ==
    \A d \in Decodable :
        Returned /\ ParsedReply(d)
          => /\ obs.ret = 0
             /\ AllDecoded
             /\ Len(resp.blocks) = Len(d.blocks)
             /\ \A b \in 1..Len(d.blocks) :
                   /\ resp.blocks[b].sensor_type = BlocksIn(obs.data)[b].tag
                   /\ resp.blocks[b].sensor_length = BlocksIn(obs.data)[b].len
                   /\ resp.blocks[b].num_of_sensors = BlocksIn(obs.data)[b].num
                   /\ resp.blocks[b].sensor_type = d.blocks[b].tag
                   /\ LET x == BlockField(resp.blocks[b], TypeOfTag(d.blocks[b].tag))
                      IN LiveArray(heap, x)
                         /\ Len(heap[x].recs) = Len(d.blocks[b].recs)
                           => heap[x].recs = d.blocks[b].recs

\* C23 witness: a reply whose first block declares records of 6 bytes, two
\* more than the decoder reads, has been parsed and its second block found
C23_Witness ==
    /\ ParsedOk /\ AllDecoded
    /\ Len(resp.blocks) = 2
    /\ resp.blocks[1].sensor_length = 6
    /\ resp.blocks[1].num_of_sensors = MaxRecs
    /\ resp.blocks[2].sensor_type = StrTEMP
    /\ LiveArray(heap, resp.blocks[2].sensor)
    /\ heap[resp.blocks[2].sensor].recs = Temp(1).recs

(***************************************************************************)
(* The command frame (lines 559-570 of occ_send_cmd), checked under        *)
(* SpecEncode: the encoder applied to every input of the sets below.       *)
(***************************************************************************)

CmdSeqs == {0, 1, 255}
CmdTypes == {0, 34, 255}
PayloadLengths == 0..2
PayloadBytes == {0, 1, 16, 255}
Payloads(n) == [1..n -> PayloadBytes]

\* what cmd2, a local never initialised, may hold once line 562 has run on a
\* payload of no byte
Leftovers == {Word0, <<0, 0, 0, 1>>, <<0, 1, 0, 0>>, <<255, 255, 255, 255>>}

\* lines 559-570 on one input
Encode(seq, type, length, payload, g) ==
    /\ cmd' = [seq |-> seq, type |-> type, length |-> length, payload |-> payload,
               frame |-> EncodeCmd(seq, type, length, payload, g)]
    /\ UNCHANGED <<valid, last_updated, update_interval, occ_online, nattr, resp,
                   heap, ub, update_lock, jiffies, removed, pc, call, ret, fetched,
                   ops, ptr, val, obs, bus, user_powercap>>

NextEncode ==
    \E seq \in CmdSeqs, type \in CmdTypes, length \in PayloadLengths, g \in Leftovers :
        \E payload \in Payloads(length) : Encode(seq, type, length, payload, g)

SpecEncode == Init /\ [][NextEncode]_vars

\* the two bytes of the frame that follow the payload
Embedded(c) == 256 * c.frame[2][c.length + 1] + c.frame[2][c.length + 2]

C25_ChecksumClearOfPayload ==
    cmd.length \in PayloadLengths
      => \A i \in 1..cmd.length : cmd.frame[2][i] = cmd.payload[cmd.length + 1 - i]

\* C25 witness: a two-byte payload in a frame whose checksum has bits set in
\* both of its bytes
C25_Witness ==
    /\ cmd.length = 2
    /\ cmd.payload = <<1, 16>>
    /\ cmd.frame[2][3] # 0
    /\ cmd.frame[2][4] # 0

(***************************************************************************)
(* SpecBus: the callers of occ_send_cmd taken one register transfer at a   *)
(* time: the refresh of occ_update_device (poll and retrieval reads) and   *)
(* set_user_powercap.  bus names the callers in the order their transfers  *)
(* went over the bus, one entry per unbroken run of transfers of a caller, *)
(* until the caller's exchange is over.  What the device makes of the      *)
(* transfers of two exchanges mixed is not modelled: each caller reads the *)
(* reply the device would give it alone.                                   *)
(***************************************************************************)
\* the poll reply of a master OCC: one CAPS block
BusDevice == EncReply(GoodReply(<<Caps(1)>>))

\* the status bytes the device returns to a power-cap command: accepted, or
\* 0x13 for a value it refuses
CapStatuses == {0, 19}

\* the values written to user_powercap
CapValues == {300}

\* the reply memory of the device for a power-cap command
CapReply(status) == <<0, 0, status>> \o Zeros(5)

\* the bus after a transfer of caller t
Transfer(t) == IF bus # <<>> /\ bus[Len(bus)] = t THEN bus ELSE Append(bus, t)

\* lines 606-629, one transfer of occ_send_cmd (lines 573-586) at a time;
\* the reply is validated after the last
PollStep(t) ==
    /\ pc[t] = "fetch" /\ Len(ops[t]) < 8
    /\ \E c \in {occ_send_cmd(0, 0, 1, <<16>>, BusDevice, NoFault)},
          k \in {Len(ops[t]) + 1} :
          /\ ops' = [ops EXCEPT ![t] = Append(@, c.ops[k])]
          /\ bus' = Transfer(t)
          /\ IF k < 8
             THEN UNCHANGED <<obs, pc, ret, valid, last_updated, fetched>>
             ELSE /\ fetched' = [fetched EXCEPT ![t] = TRUE]
                  /\ IF \/ StatusRejected(c.status)
                        \/ get_occdata_length(c.resp) > OCC_DATA_MAX
                        \/ get_occdata_length(c.resp) <= 0
                     THEN /\ obs' = [NoObs EXCEPT !.by = t, !.data = c.resp,
                                                  !.fault = NoFault, !.ret = -EINVAL,
                                                  !.before = resp, !.heap_before = heap]
                          /\ pc' = [pc EXCEPT ![t] = "unlock"]
                          /\ ret' = [ret EXCEPT ![t] = -EINVAL]
                          /\ valid' = ValidAfter(-EINVAL)
                          /\ last_updated' = jiffies
                     ELSE /\ obs' = [NoObs EXCEPT !.data = c.resp, !.fault = NoFault,
                                                  !.before = resp, !.heap_before = heap]
                          /\ pc' = [pc EXCEPT ![t] = "read"]
                          /\ UNCHANGED <<ret, valid, last_updated>>
    /\ UNCHANGED <<cmd, user_powercap, update_interval, occ_online, nattr, resp, heap,
                   ub, update_lock, jiffies, removed, call, ptr, val>>

\* lines 632-633: one occ_getscomb of the retrieval loop, on the bus
BusRead(t) ==
    /\ pc[t] = "read"
    /\ ReadCursor(t) < get_occdata_length(obs.data) + 8
    /\ \E r \in {ReadOne([data |-> obs.data, ops |-> ops[t], past |-> FALSE],
                         BusDevice, ReadCursor(t), NoFault, Len(ops[t]) + 1)} :
          /\ obs' = [obs EXCEPT !.data = r.data]
          /\ ops' = [ops EXCEPT ![t] = r.ops]
          /\ bus' = Transfer(t)
          /\ ub' = IF r.past THEN ub \cup {"write_past_raw"} ELSE ub
    /\ UNCHANGED <<cmd, user_powercap, valid, last_updated, update_interval, occ_online,
                   nattr, resp, heap, update_lock, jiffies, removed, pc, call, ret,
                   fetched, ptr, val>>

\* a write of v to user_powercap starts (lines 1145-1161); the file exists
\* once the attributes of a CAPS block were created (lines 1287-1303).
\* update_lock is not taken
StartCap(t, v) ==
    /\ pc[t] = "idle" /\ occ_online = 1 /\ ~removed
    /\ nattr["caps"] > 0
    /\ call' = [call EXCEPT ![t] = [kind |-> "powercap", t |-> "", n |-> v]]
    /\ pc' = [pc EXCEPT ![t] = "cmd"]
    /\ ops' = [ops EXCEPT ![t] = <<>>]
    /\ UNCHANGED <<cmd, bus, user_powercap, valid, last_updated, update_interval,
                   occ_online, nattr, resp, heap, ub, update_lock, jiffies, removed,
                   ret, fetched, ptr, val, obs>>

\* line 1162, one transfer of occ_send_cmd at a time, and lines 1163-1173
\* after the last: the status byte decides
CapStep(t, status) ==
    /\ pc[t] = "cmd"
    /\ \E c \in {occ_send_cmd(0, 34, 2, <<call[t].n % 256, call[t].n \div 256>>,
                              CapReply(status), NoFault)},
          k \in {Len(ops[t]) + 1} :
          /\ bus' = Transfer(t)
          /\ IF k < 8
             THEN /\ ops' = [ops EXCEPT ![t] = Append(@, c.ops[k])]
                  /\ UNCHANGED <<pc, ret, user_powercap>>
             ELSE /\ ops' = [ops EXCEPT ![t] = <<>>]
                  /\ pc' = [pc EXCEPT ![t] = "done"]
                  /\ ret' = [ret EXCEPT ![t] = IF c.status # 0 THEN -EINVAL ELSE 0]
                  /\ user_powercap' = IF c.status # 0 THEN user_powercap
                                      ELSE call[t].n
    /\ UNCHANGED <<cmd, valid, last_updated, update_interval, occ_online, nattr, resp,
                   heap, ub, update_lock, jiffies, removed, call, fetched, ptr, val,
                   obs>>

NextBus ==
    \/ \E t \in Threads, st \in SensorT, n \in 0..(MaxRecs - 1) : StartShow(t, st, n)
    \/ \E t \in Threads : StartOnline(t)
    \/ \E t \in Threads : Acquire(t)
    \/ \E t \in Threads : PollStep(t)
    \/ \E t \in Threads : BusRead(t)
    \/ \E t \in Threads : Parse(t)
    \/ \E t \in Threads : Unlock(t)
    \/ \E t \in Threads : AfterUpdate(t)
    \/ \E t \in Threads : Deref(t)
    \/ \E t \in Threads : Return(t)
    \/ \E t \in Threads, v \in CapValues : StartCap(t, v)
    \/ \E t \in Threads, status \in CapStatuses : CapStep(t, status)
    \/ Tick

SpecBus == Init /\ [][NextBus]_vars

\* C26 as stated: the transfers one caller makes in an exchange are not
\* separated on the bus by a transfer of another caller: they are one run
C26_ExchangesAtomic ==
    \A i \in 1..Len(bus), j \in 1..Len(bus) : i < j => bus[i] # bus[j]

(***************************************************************************)
(* The life of the record arrays, checked under SpecParse.                 *)
(***************************************************************************)
\* the fields (sensor, power, caps) of the block list that point to array a
PointersTo(r, a) ==
    {<<i, f>> \in (1..Len(r.blocks)) \X {"temp", "power", "caps"} :
        BlockField(r.blocks[i], f) = a}

\* C27 as stated: after every parse and after teardown no array was freed a
\* second time, every array pointer of the block list points to a live array
\* and to no array another field points to, and every live array is pointed
\* to by the block list
C27_ArraysFreedOnce ==
    /\ ub \cap {"double_free", "wild_free"} = {}
    /\ \A a \in ArraysOf(resp) : heap[a].st = "live"
    /\ \A a \in Addr :
          heap[a].st = "live" => Cardinality(PointersTo(resp, a)) = 1

\* C28 as stated: a parse that went past validation stored every record it
\* decoded into a live array of its block that has room for it, and found
\* the block list and the array present
C28_DecodeIntoLiveArray ==
    Observed /\ obs.parsed
      => ~obs.oops /\ ub \cap {"write_freed", "write_past_end", "oob_block"} = {}

\* C29 as stated: a parse that accepted the response has read no byte
\* outside the raw buffer and none outside the reply the device declared
C29_ReadsInsideReply ==
    Observed /\ obs.parsed /\ obs.ret = 0
      => ub \cap {"read_past_raw", "read_past_reply"} = {}

(***************************************************************************)
(* SpecLive: the callers of Spec against a device whose CAPS-less replies  *)
(* move a type from one block to another, with the scheduling the kernel   *)
(* gives: a caller that can take a step takes it (the transport returns,   *)
(* a handler runs on), and a caller that waits for update_lock gets it if  *)
(* it is free again and again.                                             *)
(***************************************************************************)
LiveReplies ==
    {GoodReply(<<Freq(1)>>), GoodReply(<<Freq(0), Temp(1)>>),
     GoodReply(<<Temp(1), Freq(1)>>)}

NextLive ==
    \/ \E t \in Threads, st \in SensorT, n \in 0..(MaxRecs - 1) : StartShow(t, st, n)
    \/ \E t \in Threads : StartOnline(t)
    \/ \E t \in Threads : Acquire(t)
    \/ \E t \in Threads, d \in LiveReplies : Fetch(t, d, NoFault)
    \/ \E t \in Threads : Unlock(t)
    \/ \E t \in Threads : AfterUpdate(t)
    \/ \E t \in Threads : Deref(t)
    \/ \E t \in Threads : Return(t)
    \/ Tick

\* the steps of caller t after occ_get_all, which wait for nothing
Runs(t) == Unlock(t) \/ AfterUpdate(t) \/ Deref(t) \/ Return(t)

\* the transport calls return: no caller stays in occ_get_all for ever; it
\* comes out by Fetch, the one step that leaves "fetch"
TransportReturns(t) == []<>(pc[t] # "fetch")

Scheduling ==
    \A t \in Threads :
        SF_vars(Acquire(t)) /\ TransportReturns(t) /\ WF_vars(Runs(t))

SpecLive == Init /\ [][NextLive]_vars /\ Scheduling

\* C30 as stated: a caller that has entered occ_update_device gets
\* update_lock, and every call returns
C30_EveryCallReturns ==
    \A t \in Threads :
        /\ (pc[t] = "lock") ~> (update_lock = t)
        /\ (pc[t] # "idle") ~> (pc[t] = "idle")

(***************************************************************************)
(* The block count of the stored header, checked under SpecParse.          *)
(***************************************************************************)
\* C31: between parses the block count of the stored header is the number
\* of entries of the block list when there is one and 0 when there is none,
\* and the loop of deinit_occ_resp_buf over that count stays inside the list
C31_BlockCountMatchesList ==
    /\ resp.has_blocks => resp.header.sensor_block_num = Len(resp.blocks)
    /\ ~resp.has_blocks => resp.header.sensor_block_num = 0 /\ resp.blocks = <<>>
    /\ "oob_block" \notin TornDown.ub

\* C31 witness: a parse has replaced a block list of one entry by one of two
\* and stored the count 2
C31_Witness ==
    /\ Returned /\ obs.parsed /\ obs.ret = 0
    /\ obs.before.has_blocks /\ Len(obs.before.blocks) = 1
    /\ resp.has_blocks /\ Len(resp.blocks) = 2
    /\ resp.header.sensor_block_num = 2
====
